---- MODULE Spec2Model ----
(***************************************************************************)
(* A model of the relevance-scoring and recurrence pipeline:               *)
(*   src/src/state/dedup.py                      DedupStore                *)
(*   src/src/modules/weekly_summary/aggregator.py aggregate_weekly         *)
(*   src/src/modules/weekly_summary/ranker.py     rank_items               *)
(*   src/src/filters/keyword_filter.py            score_text, filter_items *)
(*   src/src/formatters/issue_formatter.py        format_daily_issue       *)
(*   src/src/filters/keyword_filter.py            load_keywords            *)
(*   src/src/state/run_logger.py                  append_run_record        *)
(*   src/src/main.py                              main (the daily run)     *)
(*                                                                         *)
(* Each component has its own specification (SpecDedup, SpecAgg, SpecRank, *)
(* SpecWeight, SpecScore, SpecParse, SpecFormat, SpecKeywords, SpecLog,    *)
(* SpecMain); the variables of the other components stay at their idle     *)
(* value.                                                                  *)
(***************************************************************************)
EXTENDS Integers, Sequences, FiniteSets, TLC

VARIABLES
    file,       \* dedup: the store file on disk, [kind, content]
    loaded,     \* dedup: the content the running store was loaded with
    data,       \* dedup: DedupStore._data, bucket name -> list of records
    now,        \* dedup: datetime.now(timezone.utc), in ticks
    pc,         \* dedup: "start" | "ready" | "raised"
    ret,        \* dedup: the last call, [op, arg, val, repeat]
    agg,        \* aggregator: [done, issues, out]
    ranking,    \* ranker: [done, items, top_n, out]
    scoring,    \* scoring: [done, items, categories, min_score, out]
    fn          \* the call of a function, or the daily run: [done, op, ...]

vars == <<file, loaded, data, now, pc, ret, agg, ranking, scoring, fn>>

Idle == [done |-> FALSE]

----------------------------------------------------------------------------
(* Generic helpers *)

Range(s) == {s[i] : i \in 1..Len(s)}

SeqsUpTo(S, n) == UNION {[1..k -> S] : k \in 0..n}

Max(a, b) == IF a >= b THEN a ELSE b

Min(a, b) == IF a <= b THEN a ELSE b

----------------------------------------------------------------------------
(* Time and timestamps.  A tick is 1/TicksPerSecond of a second; a day is  *)
(* scaled down to SecondsPerDay seconds.                                   *)

TicksPerSecond == 2

SecondsPerDay == 2

RetentionDays == 1

MaxElapsed == 4

TicksPerDay == SecondsPerDay * TicksPerSecond

\* timedelta(days=self.retention_days), in ticks
Retention == RetentionDays * TicksPerDay

\* The clock starts late enough for the cutoff never to precede time 0.
Epoch == Retention

Times == 0..(Epoch + MaxElapsed)

\* Characters of a timestamp and their code points: str comparison in
\* Python is by code point.
Ord(c) ==
    CASE c = "+" -> 43
      [] c = "." -> 46
      [] c = "0" -> 48 [] c = "1" -> 49 [] c = "2" -> 50 [] c = "3" -> 51
      [] c = "4" -> 52 [] c = "5" -> 53 [] c = "6" -> 54 [] c = "7" -> 55
      [] c = "8" -> 56 [] c = "9" -> 57

Digit(n) == <<"0", "1", "2", "3", "4", "5", "6", "7", "8", "9">>[n + 1]

\* datetime.isoformat() of a UTC time: the zero-padded date and time fields
\* (here the seconds, two digits), ".ffffff" only when the sub-second part
\* is not zero (here one digit), and the offset "+00:00" (here "+").
IsoFormat(t) ==
    LET sec  == t \div TicksPerSecond
        frac == t % TicksPerSecond
    IN  <<Digit((sec \div 10) % 10), Digit(sec % 10)>>
        \o (IF frac = 0 THEN <<>> ELSE <<".", Digit(frac)>>)
        \o <<"+">>

\* a > b on Python strings: lexicographic by code point, a proper prefix
\* is smaller.
RECURSIVE StrGT(_, _)
StrGT(a, b) ==
    IF a = <<>> THEN FALSE
    ELSE IF b = <<>> THEN TRUE
    ELSE IF Ord(Head(a)) # Ord(Head(b)) THEN Ord(Head(a)) > Ord(Head(b))
    ELSE StrGT(Tail(a), Tail(b))

----------------------------------------------------------------------------
(* DedupStore *)

MaxItems == 2

\* unique_id values a collector produces, as their ':'-separated
\* segments: "arxiv:1" and "github:release:r".
UniqueIds == { <<"arxiv", "1">>, <<"github", "release", "r">> }

\* The bucket taken from the last segment of the ID
SourceOfLast(unique_id) == unique_id[Len(unique_id)]

\* unique_id.split(":")[0]
SourceOf(unique_id) == unique_id[1]

EmptyData == [b \in {"arxiv", "github", "pwc"} |-> <<>>]

Entry(unique_id, t) == [id |-> unique_id, seen_at |-> IsoFormat(t)]

\* The store files a first run may find: none, one that is not JSON, one
\* that cannot be opened, and one written by an earlier version, with a
\* bucket this version does not know and without the "arxiv" and "pwc"
\* buckets.  Its records are aged exactly the retention window and one
\* second less at the start of the clock.
InitialFiles ==
    { [kind |-> "missing", content |-> EmptyData],
      [kind |-> "invalid", content |-> EmptyData],
      [kind |-> "unreadable", content |-> EmptyData],
      [kind |-> "valid",
       content |-> [b \in {"github", "hf"} |->
                      IF b = "github"
                      THEN <<Entry(<<"github", "trending", "r">>,
                                   Epoch - Retention)>>
                      ELSE <<Entry(<<"hf", "1">>,
                                   Epoch - Retention + TicksPerSecond)>>]] }

\* DedupStore.is_seen
is_seen(d, unique_id) ==
    LET source  == SourceOf(unique_id)
        entries == IF source \in DOMAIN d THEN d[source] ELSE <<>>
    IN  \E i \in 1..Len(entries) : entries[i].id = unique_id

\* mark_seen without the is_seen test of line 79
mark_seen_always(d, unique_id, t) ==
    LET source == SourceOf(unique_id)
        d1 == IF source \notin DOMAIN d
              THEN [b \in DOMAIN d \cup {source} |->
                      IF b \in DOMAIN d THEN d[b] ELSE <<>>]
              ELSE d
    IN  [d1 EXCEPT ![source] = Append(@, Entry(unique_id, t))]

\* DedupStore.mark_seen: the store after the call at time t
mark_seen(d, unique_id, t) ==
    LET source == SourceOf(unique_id)
        d1 == IF source \notin DOMAIN d
              THEN [b \in DOMAIN d \cup {source} |->
                      IF b \in DOMAIN d THEN d[b] ELSE <<>>]
              ELSE d
    IN  IF ~is_seen(d1, unique_id)
        THEN [d1 EXCEPT ![source] = Append(@, Entry(unique_id, t))]
        ELSE d1

\* DedupStore.filter_unseen: [data, unseen] after the first k items
RECURSIVE filter_unseen_loop(_, _, _, _)
filter_unseen_loop(d, items, k, t) ==
    IF k = 0 THEN [data |-> d, unseen |-> <<>>]
    ELSE LET before == filter_unseen_loop(d, items, k - 1, t)
             uid    == items[k].unique_id
         IN  IF ~is_seen(before.data, uid)
             THEN [data   |-> mark_seen(before.data, uid, t),
                   unseen |-> Append(before.unseen, items[k])]
             ELSE before

\* filter_unseen without the mark_seen call of line 100
filter_unseen_no_mark(d, items, t) ==
    [data   |-> d,
     unseen |-> filter_unseen_loop(d, items, Len(items), t).unseen]

\* filter_unseen testing every item against the store as it was before
\* the call, and marking afterwards
filter_unseen_batch(d, items, t) ==
    LET Unseen(item) == ~is_seen(d, item.unique_id)
    IN  [data   |-> filter_unseen_loop(d, items, Len(items), t).data,
         unseen |-> SelectSeq(items, Unseen)]

filter_unseen(d, items, t) == filter_unseen_loop(d, items, Len(items), t)

\* _prune going over the three buckets of __init__ only
prune_known_buckets(d, t) ==
    LET cutoff == IsoFormat(t - Retention)
        Keep(entry) == StrGT(entry.seen_at, cutoff)
    IN  [source \in DOMAIN d \cap {"arxiv", "github", "pwc"} |->
            SelectSeq(d[source], Keep)]

\* DedupStore._prune at time t
prune(d, t) ==
    LET cutoff == IsoFormat(t - Retention)
        Keep(entry) == StrGT(entry.seen_at, cutoff)
    IN  [source \in DOMAIN d |-> SelectSeq(d[source], Keep)]

\* The items of a call: each list element is an object of its own, named
\* by its position.
ItemsOf(uids) == [k \in 1..Len(uids) |-> [unique_id |-> uids[k], obj |-> k]]

ItemLists == {ItemsOf(uids) : uids \in SeqsUpTo(UniqueIds, MaxItems)}

\* The record of a call: the operation, its argument, what it returned,
\* and, when the call before it was the same operation on the same
\* argument, what that one returned.
Call(op, arg, val) ==
    [op |-> op, arg |-> arg, val |-> val,
     repeat |-> IF ret.op = op /\ ret.arg = arg
                THEN [is |-> TRUE, val |-> ret.val]
                ELSE [is |-> FALSE, val |-> <<>>]]

InitDedup ==
    /\ agg = Idle /\ ranking = Idle /\ scoring = Idle /\ fn = Idle
    /\ file \in InitialFiles
    /\ data = EmptyData
    /\ loaded = EmptyData
    /\ now = Epoch
    /\ pc = "start"
    /\ ret = [op |-> "none", arg |-> <<>>, val |-> <<>>,
              repeat |-> [is |-> FALSE, val |-> <<>>]]

\* DedupStore.__init__ and _load, at the start of a run
Construct ==
    /\ pc \in {"start", "ready"}
    /\ IF file.kind = "unreadable"
       THEN \* open() raises OSError, which _load does not catch
            /\ pc' = "raised"
            /\ data' = EmptyData
       ELSE /\ pc' = "ready"
            /\ data' = IF file.kind = "valid" THEN file.content ELSE EmptyData
    /\ loaded' = data'
    /\ ret' = Call("__init__", <<>>, <<>>)
    /\ UNCHANGED <<file, now, agg, ranking, scoring, fn>>

IsSeen(unique_id) ==
    /\ pc = "ready"
    /\ ret' = Call("is_seen", unique_id, is_seen(data, unique_id))
    /\ UNCHANGED <<file, loaded, data, now, pc, agg, ranking, scoring, fn>>

MarkSeen(unique_id) ==
    /\ pc = "ready"
    /\ data' = mark_seen(data, unique_id, now)
    /\ ret' = Call("mark_seen", unique_id, <<>>)
    /\ UNCHANGED <<file, loaded, now, pc, agg, ranking, scoring, fn>>

FilterUnseen(items) ==
    /\ pc = "ready"
    /\ LET r == filter_unseen(data, items, now)
       IN  /\ data' = r.data
           /\ ret' = Call("filter_unseen", items, r.unseen)
    /\ UNCHANGED <<file, loaded, now, pc, agg, ranking, scoring, fn>>

Save ==
    /\ pc = "ready"
    /\ data' = prune(data, now)
    /\ file' = [kind |-> "valid", content |-> data']
    /\ ret' = Call("save", <<>>, <<>>)
    /\ UNCHANGED <<loaded, now, pc, agg, ranking, scoring, fn>>

Tick ==
    /\ now < Epoch + MaxElapsed
    /\ now' = now + 1
    /\ UNCHANGED <<file, loaded, data, pc, ret, agg, ranking, scoring, fn>>

NextDedup ==
    \/ Construct
    \/ \E u \in UniqueIds : IsSeen(u)
    \/ \E u \in UniqueIds : MarkSeen(u)
    \/ \E items \in ItemLists : FilterUnseen(items)
    \/ Save
    \/ Tick

SpecDedup == InitDedup /\ [][NextDedup]_vars

----------------------------------------------------------------------------
(* Properties of the DedupStore *)

\* The time a timestamp written by IsoFormat denotes.
TimeOf(s) == CHOOSE t \in Times : IsoFormat(t) = s

IsPrefix(s, t) == Len(s) <= Len(t) /\ SubSeq(t, 1, Len(s)) = s

\* C1: when filter_unseen is called twice in succession on the same list,
\* the second call returns the empty list.
C1_SecondFilterUnseenIsEmpty ==
    (ret.op = "filter_unseen" /\ ret.repeat.is) => ret.val = <<>>

\* A second call in a row, after a first one that returned items.
C1_Witness ==
    /\ ret.op = "filter_unseen"
    /\ ret.repeat.is
    /\ Len(ret.repeat.val) > 0
    /\ Len(ret.val) = 0

\* C2, as claimed: save() removes, in every bucket, exactly the records
\* whose seen_at is older than retention_days before the current time,
\* keeps all the others, and persists the result.
C2_SaveRemovesExactlyTheOlder ==
    [][Save =>
        /\ DOMAIN data' = DOMAIN data
        /\ \A b \in DOMAIN data :
              LET NotOlder(entry) ==
                      ~(TimeOf(entry.seen_at) < now - Retention)
              IN  data'[b] = SelectSeq(data[b], NotOlder)
        /\ file'.content = data']_vars

\* C2, what the code does: a record is kept exactly when its seen_at is
\* after the cutoff, so one aged exactly retention_days is removed too;
\* one aged a second less is kept, one aged a second more is removed.
C2_SaveKeepsExactlyTheNewer ==
    [][Save =>
        /\ DOMAIN data' = DOMAIN data
        /\ \A b \in DOMAIN data :
              LET Newer(entry) == TimeOf(entry.seen_at) > now - Retention
              IN  data'[b] = SelectSeq(data[b], Newer)
        /\ file'.content = data']_vars

\* C7: within one call of filter_unseen the result holds, in input order,
\* exactly the items whose ID was unseen before the call and does not
\* occur earlier in the list; no ID occurs twice in the result.
C7_FirstOfEqualIdsOnly ==
    [][\A items \in ItemLists :
          FilterUnseen(items) =>
            LET First(item) ==
                    /\ ~is_seen(data, item.unique_id)
                    /\ \A j \in 1..(item.obj - 1) :
                          items[j].unique_id # item.unique_id
                out == ret'.val
            IN  /\ out = SelectSeq(items, First)
                /\ \A i, j \in 1..Len(out) :
                      i # j => out[i].unique_id # out[j].unique_id]_vars

\* A call on a list with the same ID twice returned the first of the two
\* items and not the second.
C7_Witness ==
    /\ ret.op = "filter_unseen"
    /\ \E i, j \in 1..Len(ret.arg) :
          /\ i < j
          /\ ret.arg[i].unique_id = ret.arg[j].unique_id
          /\ ret.arg[i] \in Range(ret.val)
          /\ ret.arg[j] \notin Range(ret.val)

\* C8: mark_seen(u) leaves the store as it is when u is recorded, and
\* otherwise appends one record for u, stamped with the current time, to
\* the bucket of u, and changes nothing else.
C8_MarkSeenIdempotent ==
    [][\A u \in UniqueIds :
          MarkSeen(u) =>
            IF is_seen(data, u)
            THEN data' = data
            ELSE LET s   == SourceOf(u)
                     old == IF s \in DOMAIN data THEN data[s] ELSE <<>>
                 IN  /\ DOMAIN data' = DOMAIN data \cup {s}
                     /\ \A b \in DOMAIN data \ {s} : data'[b] = data[b]
                     /\ Len(data'[s]) = Len(old) + 1
                     /\ SubSeq(data'[s], 1, Len(old)) = old
                     /\ data'[s][Len(old) + 1].id = u
                     /\ TimeOf(data'[s][Len(old) + 1].seen_at) = now]_vars

\* mark_seen(u) was called twice in a row, the second time later than the
\* time u's only record is stamped with.
C8_Witness ==
    /\ ret.op = "mark_seen"
    /\ ret.repeat.is
    /\ LET entries == data[SourceOf(ret.arg)]
       IN  /\ Cardinality({i \in 1..Len(entries) :
                              entries[i].id = ret.arg}) = 1
           /\ \E i \in 1..Len(entries) :
                 /\ entries[i].id = ret.arg
                 /\ TimeOf(entries[i].seen_at) < now

\* C9, as claimed: constructing a store on a missing, unreadable or
\* invalid file does not raise and yields the empty store, in which no ID
\* is seen.
C9_ConstructNeverRaises ==
    (ret.op = "__init__" /\ file.kind \in {"missing", "unreadable", "invalid"})
        => /\ pc = "ready"
           /\ data = EmptyData
           /\ \A u \in UniqueIds : ~is_seen(data, u)

C11_EachIdOnceInItsBucket ==
    \A b \in DOMAIN data :
        \A i \in 1..Len(data[b]) :
            /\ data[b][i].id[1] = b
            /\ \A b2 \in DOMAIN data :
                   \A j \in 1..Len(data[b2]) :
                       data[b2][j].id = data[b][i].id => (b2 = b /\ j = i)

\* mark_seen was called twice in a row on the same ID, on a store loaded
\* from a saved file that by now holds records in three buckets.
C11_Witness ==
    /\ pc = "ready"
    /\ ret.op = "mark_seen" /\ ret.repeat.is
    /\ loaded # EmptyData
    /\ Cardinality({b \in DOMAIN data : data[b] # <<>>}) >= 3

----------------------------------------------------------------------------
(* Text: a Python str is a string; the operations of str that the code     *)
(* uses.  The character classes are those of ASCII text.                   *)

LowerCase ==
    { "a", "b", "c", "d", "e", "f", "g", "h", "i", "j", "k", "l", "m",
      "n", "o", "p", "q", "r", "s", "t", "u", "v", "w", "x", "y", "z" }

UpperCase ==
    [A |-> "a", B |-> "b", C |-> "c", D |-> "d", E |-> "e", F |-> "f",
     G |-> "g", H |-> "h", I |-> "i", J |-> "j", K |-> "k", L |-> "l",
     M |-> "m", N |-> "n", O |-> "o", P |-> "p", Q |-> "q", R |-> "r",
     S |-> "s", T |-> "t", U |-> "u", V |-> "v", W |-> "w", X |-> "x",
     Y |-> "y", Z |-> "z"]

\* re.IGNORECASE: characters are compared by their lower-case form
Lower(c) == IF c \in DOMAIN UpperCase THEN UpperCase[c] ELSE c

Digits == {"0", "1", "2", "3", "4", "5", "6", "7", "8", "9"}

\* \s of the regular expressions, the characters str.strip() removes
Whitespace == {" ", "\t", "\n", "\r", "\f"}

\* The character of s at position p, positions counted from 1
Char(s, p) == SubSeq(s, p, p)

\* The first position from p on whose character is outside the class;
\* Len(s) + 1 if there is none
SkipWhile(s, p, class) ==
    CHOOSE q \in p..(Len(s) + 1) :
        /\ q = Len(s) + 1 \/ Char(s, q) \notin class
        /\ \A r \in p..(q - 1) : Char(s, r) \in class

\* The first position from p on whose character is in the class;
\* Len(s) + 1 if there is none
SkipUntil(s, p, class) ==
    CHOOSE q \in p..(Len(s) + 1) :
        /\ q = Len(s) + 1 \/ Char(s, q) \in class
        /\ \A r \in p..(q - 1) : Char(s, r) \notin class

\* str.rstrip()
RStrip(s) ==
    LET n == CHOOSE q \in 0..Len(s) :
                 /\ q = 0 \/ Char(s, q) \notin Whitespace
                 /\ \A r \in (q + 1)..Len(s) : Char(s, r) \in Whitespace
    IN  SubSeq(s, 1, n)

\* str.strip()
Strip(s) ==
    LET r == RStrip(s) IN SubSeq(r, SkipWhile(r, 1, Whitespace), Len(r))

\* The parts of s from position from on, between the separators
RECURSIVE SplitFrom(_, _, _)
SplitFrom(s, from, sep) ==
    LET p == SkipUntil(s, from, {sep})
    IN  IF p > Len(s) THEN <<SubSeq(s, from, Len(s))>>
        ELSE <<SubSeq(s, from, p - 1)>> \o SplitFrom(s, p + 1, sep)

\* s.split(sep) for a separator of one character
Split(s, sep) == SplitFrom(s, 1, sep)

\* sep.join(parts)
RECURSIVE JoinWith(_, _)
JoinWith(sep, parts) ==
    IF parts = <<>> THEN ""
    ELSE IF Len(parts) = 1 THEN parts[1]
    ELSE parts[1] \o sep \o JoinWith(sep, Tail(parts))

\* The literal is in s at position p; with ignore_case, up to case
LitAt(s, p, literal, ignore_case) ==
    /\ p + Len(literal) - 1 <= Len(s)
    /\ \A k \in 1..Len(literal) :
          IF ignore_case
          THEN Lower(Char(s, p + k - 1)) = Lower(Char(literal, k))
          ELSE Char(s, p + k - 1) = Char(literal, k)

\* The least element of a non-empty set of positions
Least(positions) == CHOOSE p \in positions : \A q \in positions : p <= q

----------------------------------------------------------------------------
(* Weekly aggregation: _parse_issue_body and aggregate_weekly.             *)
(*                                                                         *)
(* An issue body is the Markdown text of a daily issue.  The result of a   *)
(* pattern is a sequence: empty for no match, its groups otherwise.        *)
(* Scores are in hundredths.                                               *)

MaxIssues == 3

\* The words of the three section patterns, in the order of the dict;
\* each pattern is ^## followed by the words, each after \s+
section_patterns ==
    << [source |-> "arxiv", words |-> <<"arXiv", "Papers">>],
       [source |-> "github", words |-> <<"GitHub", "Updates">>],
       [source |-> "pwc", words |-> <<"Papers", "with", "Code">>] >>

\* The words, each after \s+, are in s from p on, up to case
RECURSIVE WordsAt(_, _, _)
WordsAt(s, p, words) ==
    \/ words = <<>>
    \/ LET q == SkipWhile(s, p, Whitespace)
       IN  /\ q > p
           /\ LitAt(s, q, Head(words), TRUE)
           /\ WordsAt(s, q + Len(Head(words)), Tail(words))

\* pattern.match(line) for a section pattern, compiled with re.IGNORECASE
SectionMatch(pattern, line) ==
    LitAt(line, 1, "##", TRUE) /\ WordsAt(line, 3, pattern.words)

\* The section of the line alone: no section carried over from the lines
\* before
SectionOfLineAlone(line, current_source) ==
    LET hits == {k \in 1..Len(section_patterns) :
                    SectionMatch(section_patterns[k], line)}
    IN  IF hits = {} THEN "unknown"
        ELSE section_patterns[Least(hits)].source

\* Lines 75-78: current_source after the loop over the section patterns
SectionAfter(line, current_source) ==
    LET hits == {k \in 1..Len(section_patterns) :
                    SectionMatch(section_patterns[k], line)}
    IN  IF hits = {} THEN current_source
        ELSE section_patterns[Least(hits)].source

\* The position after \d+\.\s* matched from p on, 0 for no match
NumberDotAt(s, p) ==
    LET d == SkipWhile(s, p, Digits)
    IN  IF d > p /\ d <= Len(s) /\ Char(s, d) = "."
        THEN SkipWhile(s, d + 1, Whitespace) ELSE 0

\* The position after (?:###?\s*\d+\.\s*|(?:\*\*)\d+\.\s*) matched from p
\* on, 0 for no match
ItemPrefixAt(s, p) ==
    IF LitAt(s, p, "###", FALSE)
    THEN NumberDotAt(s, SkipWhile(s, p + 3, Whitespace))
    ELSE IF LitAt(s, p, "##", FALSE)
    THEN NumberDotAt(s, SkipWhile(s, p + 2, Whitespace))
    ELSE IF LitAt(s, p, "**", FALSE) THEN NumberDotAt(s, p + 2)
    ELSE 0

\* \[([^\]]+)\]\(([^)]+)\) matched from p on: <<title, url>> in a
\* sequence, or the empty sequence
LinkAt(s, p) ==
    LET t == SkipUntil(s, p + 1, {"]"})
        u == SkipUntil(s, t + 2, {")"})
    IN  IF /\ p >= 1 /\ p <= Len(s) /\ Char(s, p) = "["
           /\ t > p + 1 /\ t + 1 <= Len(s) /\ Char(s, t + 1) = "("
           /\ u > t + 2 /\ u <= Len(s)
        THEN << <<SubSeq(s, p + 1, t - 1), SubSeq(s, t + 2, u - 1)>> >>
        ELSE <<>>

\* item_pattern matched from p on
ItemAt(s, p) ==
    IF ItemPrefixAt(s, p) = 0 THEN <<>> ELSE LinkAt(s, ItemPrefixAt(s, p))

\* item_pattern.search(line): the leftmost match
item_pattern(line) ==
    LET hits == {p \in 1..Len(line) : ItemAt(line, p) # <<>>}
    IN  IF hits = {} THEN <<>> ELSE ItemAt(line, Least(hits))

\* score:\s*([\d.]+) matched from p on
ScoreAt(s, p) ==
    LET q == SkipWhile(s, p + 6, Whitespace)
        e == SkipWhile(s, q, Digits \cup {"."})
    IN  IF LitAt(s, p, "score:", FALSE) /\ e > q
        THEN <<SubSeq(s, q, e - 1)>> ELSE <<>>

\* score_pattern.search(context)
score_pattern(context) ==
    LET hits == {p \in 1..Len(context) : ScoreAt(context, p) # <<>>}
    IN  IF hits = {} THEN <<>> ELSE ScoreAt(context, Least(hits))

\* Topics?:\s*([^\n|]+) matched from p on.  \s* takes all the whitespace;
\* when no character of the group follows it, it gives back the
\* characters from its last one that is no newline.
TopicsAt(s, p) ==
    LET c == IF LitAt(s, p, "Topics", FALSE) THEN p + 6 ELSE p + 5
        w == SkipWhile(s, c + 1, Whitespace)
        e == SkipUntil(s, w, {"\n", "|"})
        back == {j \in (c + 1)..(w - 1) : Char(s, j) # "\n"}
        b == CHOOSE j \in back : \A k \in back : j >= k
    IN  IF ~(LitAt(s, p, "Topic", FALSE) /\ c <= Len(s) /\ Char(s, c) = ":")
        THEN <<>>
        ELSE IF e > w THEN <<SubSeq(s, w, e - 1)>>
        ELSE IF back # {} THEN <<SubSeq(s, b, SkipUntil(s, b, {"\n", "|"}) - 1)>>
        ELSE <<>>

\* topics_pattern.search(context)
topics_pattern(context) ==
    LET hits == {p \in 1..Len(context) : TopicsAt(context, p) # <<>>}
    IN  IF hits = {} THEN <<>> ELSE TopicsAt(context, Least(hits))

\* quote_pattern.match(line), ^>\s*(.+) on a line without newline: when
\* only whitespace follows the >, the group is its last character
quote_pattern(line) ==
    LET w == SkipWhile(line, 2, Whitespace)
    IN  IF ~LitAt(line, 1, ">", FALSE) THEN <<>>
        ELSE IF w <= Len(line) THEN <<SubSeq(line, w, Len(line))>>
        ELSE IF w > 2 THEN <<SubSeq(line, Len(line), Len(line))>>
        ELSE <<>>

DigitValue(c) == CHOOSE n \in 0..9 : Digit(n) = c

\* The number a string of digits denotes.
RECURSIVE Decimal(_)
Decimal(text) ==
    IF Len(text) = 0 THEN 0
    ELSE 10 * Decimal(SubSeq(text, 1, Len(text) - 1))
         + DigitValue(Char(text, Len(text)))

\* float(text) of a text of digits and dots, in hundredths: ValueError
\* (ok = FALSE) unless it has one dot at most and a digit.
FloatOf(text) ==
    LET dots == {i \in 1..Len(text) : Char(text, i) = "."}
    IN  IF Cardinality(dots) > 1 \/ Cardinality(dots) = Len(text)
        THEN [ok |-> FALSE, value |-> 0]
        ELSE LET dot  == IF dots = {} THEN Len(text) + 1
                         ELSE CHOOSE i \in dots : TRUE
                 int  == SubSeq(text, 1, dot - 1)
                 frac == SubSeq(text, dot + 1, Len(text))
                 f2   == SubSeq(frac \o "00", 1, 2)
             IN  [ok |-> TRUE, value |-> 100 * Decimal(int) + Decimal(f2)]

AggregatedItem(title, url, source, relevance_score, matched_categories, description) ==
    [title |-> title, url |-> url, source |-> source,
     relevance_score |-> relevance_score,
     matched_categories |-> matched_categories,
     description |-> description, extra_info |-> "", appearances |-> 1]

\* Lines 97-99: [c.strip() for c in group.split(",") if c.strip()]
CategoriesIn(group) ==
    LET parts == Split(group, ",")
        stripped == [k \in 1..Len(parts) |-> Strip(parts[k])]
        NonEmpty(c) == Len(c) > 0
    IN  SelectSeq(stripped, NonEmpty)

\* Lines 102-106: the description from the first of the lines i+1..i+7
\* that the quote pattern matches
DescriptionAfter(lines, i) ==
    LET hits == {j \in (i + 1)..Min(i + 7, Len(lines)) :
                    quote_pattern(lines[j]) # <<>>}
    IN  IF hits = {} THEN ""
        ELSE Strip(quote_pattern(lines[Least(hits)])[1])

\* Lines 82-117: the item _parse_issue_body emits for the item header
\* that item_match was found in, at line i
ParseItem(lines, i, item_match, current_source) ==
    LET context == JoinWith("\n", SubSeq(lines, i, Min(i + 4, Len(lines))))
        score_match  == score_pattern(context)
        topics_match == topics_pattern(context)
        score == IF score_match # <<>> /\ FloatOf(score_match[1]).ok
                 THEN FloatOf(score_match[1]).value ELSE 0
        categories == IF topics_match # <<>>
                      THEN CategoriesIn(topics_match[1]) ELSE <<>>
    IN  AggregatedItem(item_match[1][1], item_match[1][2], current_source,
                       score, categories, DescriptionAfter(lines, i))

\* _parse_issue_body after the first n lines: [items, current_source]
RECURSIVE ParseLoop(_, _)
ParseLoop(lines, n) ==
    IF n = 0 THEN [items |-> <<>>, current_source |-> "unknown"]
    ELSE LET before == ParseLoop(lines, n - 1)
             line == Strip(lines[n])
             source == SectionAfter(line, before.current_source)
             item_match == item_pattern(line)
         IN  [items |-> IF item_match # <<>>
                        THEN Append(before.items,
                                    ParseItem(lines, n, item_match, source))
                        ELSE before.items,
              current_source |-> source]

parse_issue_body(body) ==
    LET lines == Split(body, "\n") IN ParseLoop(lines, Len(lines)).items

\* The merge of lines 152-153 without its test: the later score wins.
MergeScoreLast(old, new) == new

\* Lines 152-153: keep the higher score
MergeScore(old, new) == IF new > old THEN new ELSE old

\* Lines 155-158: the categories of item not in the set taken before the
\* loop are appended
MergeCategories(existing, cats) ==
    LET existing_cats == Range(existing)
        New(cat) == cat \notin existing_cats
    IN  existing \o SelectSeq(cats, New)

\* The merge storing the later occurrence in place of the stored item,
\* with the merged appearances, score and categories
MergeKeepingLast(all_items, item) ==
    IF \E k \in 1..Len(all_items) : all_items[k].url = item.url
    THEN LET k == CHOOSE k \in 1..Len(all_items) :
                     all_items[k].url = item.url
         IN  [all_items EXCEPT
                ![k] = [item EXCEPT
                          !.appearances = all_items[k].appearances + 1,
                          !.relevance_score =
                              MergeScore(all_items[k].relevance_score, @),
                          !.matched_categories =
                              MergeCategories(all_items[k].matched_categories,
                                              @)]]
    ELSE Append(all_items, item)

\* Every parsed item inserted, whether its URL is stored or not
MergeAlwaysInsert(all_items, item) == Append(all_items, item)

\* Lines 148-160: all_items, in insertion order, after one parsed item
Merge(all_items, item) ==
    IF \E k \in 1..Len(all_items) : all_items[k].url = item.url
    THEN LET k == CHOOSE k \in 1..Len(all_items) :
                     all_items[k].url = item.url
         IN  [all_items EXCEPT
                ![k].appearances = @ + 1,
                ![k].relevance_score = MergeScore(@, item.relevance_score),
                ![k].matched_categories =
                    MergeCategories(@, item.matched_categories)]
    ELSE Append(all_items, item)

RECURSIVE MergeAll(_, _)
MergeAll(all_items, parsed) ==
    IF parsed = <<>> THEN all_items
    ELSE MergeAll(Merge(all_items, Head(parsed)), Tail(parsed))

\* Every item parsed from the issues, in the order of processing.
RECURSIVE Occurrences(_)
Occurrences(issues) ==
    IF issues = <<>> THEN <<>>
    ELSE parse_issue_body(Head(issues)) \o Occurrences(Tail(issues))

aggregate_weekly(issues) == MergeAll(<<>>, Occurrences(issues))

\* Issue bodies: the item X at URL u1 with score 1.5 and topic A under the
\* GitHub header; the same with score 3.0 and topic B; the item Y at u2
\* followed by u1 again, under the arXiv header, with another title and a
\* lower score; an empty body; an item with no header, no score and a
\* description; u2 twice in one body, the first time with a score that is
\* no number.
IssueBodies ==
    { JoinWith("\n", <<"## GitHub Updates (1)", "",
                       "**1. [X](u1)** 'v1'",
                       "Relevance: LOW (score: 1.5) | Topics: A">>),
      JoinWith("\n", <<"## GitHub Updates (1)", "",
                       "**1. [X](u1)** 'v2'",
                       "Relevance: MEDIUM (score: 3.0) | Topics: B">>),
      JoinWith("\n", <<"## arXiv Papers (2)", "",
                       "### 1. [Y](u2)",
                       "Relevance: MEDIUM (score: 3.0) | Topics: A, B",
                       "> about Y",
                       "### 2. [X2](u1)",
                       "Relevance: LOW (score: 0.5) | Topics: A">>),
      "",
      JoinWith("\n", <<"### 1. [X](u1)", "", "> about X">>),
      JoinWith("\n", <<"## Papers with Code (2)",
                       "### 1. [Y](u2)",
                       "(score: 1.2.3) | Topics: B, B",
                       "### 2. [Y](u2)",
                       "(score: 2.25)">>) }

InitAgg ==
    /\ file = [kind |-> "missing", content |-> EmptyData]
    /\ loaded = EmptyData /\ data = EmptyData /\ now = Epoch /\ pc = "start"
    /\ ret = [op |-> "none", arg |-> <<>>, val |-> <<>>,
              repeat |-> [is |-> FALSE, val |-> <<>>]]
    /\ ranking = Idle /\ scoring = Idle /\ fn = Idle
    /\ \E issues \in SeqsUpTo(IssueBodies, MaxIssues) :
          agg = [done |-> FALSE, issues |-> issues, out |-> <<>>]

\* aggregate_weekly on the issues get_issues_by_label returned
AggregateWeekly ==
    /\ ~agg.done
    /\ agg' = [agg EXCEPT !.done = TRUE,
                          !.out = aggregate_weekly(agg.issues)]
    /\ UNCHANGED <<file, loaded, data, now, pc, ret, ranking, scoring, fn>>

NextAgg == AggregateWeekly

SpecAgg == InitAgg /\ [][NextAgg]_vars

----------------------------------------------------------------------------
(* Properties of aggregate_weekly *)

\* The scores of the occurrences of url, in the order of processing.
ScoresOf(issues, url) ==
    LET IsUrl(item) == item.url = url
        occ == SelectSeq(Occurrences(issues), IsUrl)
    IN  [k \in 1..Len(occ) |-> occ[k].relevance_score]

MaxOf(scores) == CHOOSE m \in Range(scores) : \A x \in Range(scores) : m >= x

\* C3: every URL that occurs in the issues has one returned item, whose
\* appearances is the number of its occurrences (1 for the first, one
\* more for each later one) and whose relevance_score is the maximum of
\* the scores parsed for the occurrences; scores 1.5 and 3.0, in either
\* order, give appearances 2 and relevance_score 3.0.
C3_AppearancesCountedScoreIsMax ==
    agg.done =>
        /\ \A k \in 1..Len(agg.out) :
              LET scores == ScoresOf(agg.issues, agg.out[k].url)
              IN  /\ agg.out[k].appearances = Len(scores)
                  /\ agg.out[k].relevance_score = MaxOf(scores)
        /\ \A item \in Range(Occurrences(agg.issues)) :
              \E k \in 1..Len(agg.out) : agg.out[k].url = item.url
        /\ \A k \in 1..Len(agg.out) :
              ScoresOf(agg.issues, agg.out[k].url) \in {<<150, 300>>, <<300, 150>>}
                  => /\ agg.out[k].appearances = 2
                     /\ agg.out[k].relevance_score = 300

\* The URL u1 was parsed with score 3.0 in the first issue and with 1.5
\* in the second, and the returned item has appearances 2 and score 3.0.
C3_Witness ==
    /\ agg.done
    /\ Len(agg.out) = 1
    /\ ScoresOf(agg.issues, agg.out[1].url) = <<300, 150>>
    /\ agg.out[1].appearances = 2
    /\ agg.out[1].relevance_score = 300

RECURSIVE SumOfAppearances(_)
SumOfAppearances(items) ==
    IF items = <<>> THEN 0
    ELSE Head(items).appearances + SumOfAppearances(Tail(items))

\* C12: no two returned items share a URL, the URLs returned are exactly
\* the URLs parsed from the issues, and the appearances of the returned
\* items add up to the number of parsed occurrences.
C12_OneItemPerUrlAppearancesAddUp ==
    agg.done =>
        LET occ == Occurrences(agg.issues)
        IN  /\ \A i, j \in 1..Len(agg.out) :
                   agg.out[i].url = agg.out[j].url => i = j
            /\ {agg.out[k].url : k \in 1..Len(agg.out)}
                   = {occ[k].url : k \in 1..Len(occ)}
            /\ SumOfAppearances(agg.out) = Len(occ)

\* Five occurrences of two URLs, in more than one issue, were aggregated
\* into two items.
C12_Witness ==
    /\ agg.done
    /\ Len(agg.issues) >= 2
    /\ Len(Occurrences(agg.issues)) = 5
    /\ Len(agg.out) = 2

\* The elements of a list in first-seen order, each once
RECURSIVE FirstSeen(_)
FirstSeen(s) ==
    IF s = <<>> THEN <<>>
    ELSE LET before == FirstSeen(SubSeq(s, 1, Len(s) - 1))
         IN  IF s[Len(s)] \in Range(before) THEN before
             ELSE Append(before, s[Len(s)])

\* The category lists of the occurrences of url, one after the other in
\* the order of processing
RECURSIVE CategoriesOf(_, _)
CategoriesOf(occ, url) ==
    IF occ = <<>> THEN <<>>
    ELSE (IF Head(occ).url = url THEN Head(occ).matched_categories ELSE <<>>)
         \o CategoriesOf(Tail(occ), url)

\* C13: the matched_categories of every returned item is the union of
\* the category lists of its occurrences, in first-seen order, no name
\* twice.
C13_CategoriesAreFirstSeenUnion ==
    agg.done =>
        \A k \in 1..Len(agg.out) :
            agg.out[k].matched_categories
                = FirstSeen(CategoriesOf(Occurrences(agg.issues),
                                         agg.out[k].url))

\* The issues in which url is the URL of a parsed item
IssuesWith(issues, url) ==
    {d \in 1..Len(issues) :
        \E item \in Range(parse_issue_body(issues[d])) : item.url = url}

\* C14: the appearances of every returned item is the number of issues
\* in which its URL appears, and is at least 1.
C14_AppearancesIsNumberOfIssues ==
    agg.done =>
        \A k \in 1..Len(agg.out) :
            /\ agg.out[k].appearances
                   = Cardinality(IssuesWith(agg.issues, agg.out[k].url))
            /\ agg.out[k].appearances >= 1

----------------------------------------------------------------------------
(* Parsing the documents of a batch: the loop of aggregate_weekly calls    *)
(* _parse_issue_body on one issue body after the other.  A document is a   *)
(* sequence of lines; its body is the lines joined by newlines.            *)

MaxLines == 3

\* The lines of the documents: the three section headers, the second
\* indented and in other case; an item header that is a numbered
\* sub-heading and one that is a bold numbered line; a line that is a
\* section header and an item header; a line with a score and a Topics
\* list; a line whose score is no number; a blockquote line; a sub-heading
\* that is neither a section header nor an item header.
LineTexts ==
    { "## arXiv Papers (2)",
      "  ## GITHUB updates",
      "## Papers with Code",
      "### 1. [T1](u1)",
      "**2. [T2](u2)** | Stars: 5",
      "## GitHub Updates **3. [T3](u3)**",
      "Relevance: LOW (score: 1.5) | Topics: A, B",
      "(score: 1.2.3)",
      "> about it",
      "### New Releases" }

\* The documents that follow the first one in a batch
LaterDocuments ==
    { <<>>, <<"### 1. [T1](u1)">>,
      <<"## arXiv Papers (2)", "**2. [T2](u2)** | Stars: 5", "(score: 1.2.3)">> }

InitParse ==
    /\ file = [kind |-> "missing", content |-> EmptyData]
    /\ loaded = EmptyData /\ data = EmptyData /\ now = Epoch /\ pc = "start"
    /\ ret = [op |-> "none", arg |-> <<>>, val |-> <<>>,
              repeat |-> [is |-> FALSE, val |-> <<>>]]
    /\ agg = Idle /\ ranking = Idle /\ scoring = Idle
    /\ \E first \in SeqsUpTo(LineTexts, MaxLines) :
          \E later \in SeqsUpTo(LaterDocuments, 1) :
              fn = [done |-> FALSE, op |-> "none",
                    arg |-> <<first>> \o later, out |-> <<>>]

\* Lines 145-146: _parse_issue_body on the body of the next issue
ParseIssueBody ==
    /\ ~fn.done
    /\ LET body == JoinWith("\n", fn.arg[Len(fn.out) + 1])
           out  == Append(fn.out, parse_issue_body(body))
       IN  fn' = [fn EXCEPT !.done = (Len(out) = Len(fn.arg)),
                            !.op = "parse_issue_body",
                            !.out = out]
    /\ UNCHANGED <<file, loaded, data, now, pc, ret, agg, ranking, scoring>>

NextParse == ParseIssueBody

SpecParse == InitParse /\ [][NextParse]_vars

----------------------------------------------------------------------------
(* Properties of _parse_issue_body *)

\* The section each header line of LineTexts names
HeaderSection ==
    [arxiv |-> {"## arXiv Papers (2)"},
     github |-> {"  ## GITHUB updates", "## GitHub Updates **3. [T3](u3)**"},
     pwc |-> {"## Papers with Code"}]

\* The lines of LineTexts that start an item, and the URL of each
ItemStartUrl ==
    [l \in {"### 1. [T1](u1)", "**2. [T2](u2)** | Stars: 5",
            "## GitHub Updates **3. [T3](u3)**"} |->
        CASE l = "### 1. [T1](u1)" -> "u1"
          [] l = "**2. [T2](u2)** | Stars: 5" -> "u2"
          [] l = "## GitHub Updates **3. [T3](u3)**" -> "u3"]

\* The positions of the item-start lines of a document, in order
ItemStarts(lines) ==
    LET IsStart(i) == lines[i] \in DOMAIN ItemStartUrl
        Pos == [i \in 1..Len(lines) |-> i]
    IN  SelectSeq(Pos, IsStart)

\* The section of the last header line among the first i lines
SectionAt(lines, i) ==
    LET IsHeader(j) == \E s \in DOMAIN HeaderSection : lines[j] \in HeaderSection[s]
        headers == {j \in 1..i : IsHeader(j)}
        last == CHOOSE j \in headers : \A k \in headers : j >= k
    IN  IF headers = {} THEN "unknown"
        ELSE CHOOSE s \in DOMAIN HeaderSection : lines[last] \in HeaderSection[s]

\* C16: the items parsed from a document are those of its item-start
\* lines, in order, and the source of each is the section of the most
\* recent section-header line at or before its line in that document,
\* whatever the case and the indentation of the header, and "unknown" if
\* no header precedes it, whatever the documents parsed before.
C16_SourceIsLastSectionHeader ==
    fn.op = "parse_issue_body" =>
        \A d \in 1..Len(fn.out) :
            LET lines == fn.arg[d]
                starts == ItemStarts(lines)
            IN  /\ Len(fn.out[d]) = Len(starts)
                /\ \A k \in 1..Len(starts) :
                      /\ fn.out[d][k].url = ItemStartUrl[lines[starts[k]]]
                      /\ fn.out[d][k].source = SectionAt(lines, starts[k])

\* A document with the indented upper-case GitHub header, a line that is
\* no header and an item was parsed and the item has source github; the
\* document after it starts with an item, which has source unknown.
C16_Witness ==
    /\ fn.done /\ fn.op = "parse_issue_body"
    /\ fn.arg = << <<"  ## GITHUB updates", "### New Releases", "### 1. [T1](u1)">>,
                   <<"### 1. [T1](u1)">> >>
    /\ fn.out[1][1].source = "github"
    /\ fn.out[2][1].source = "unknown"

\* The lines of LineTexts that hold a score token, with the number in
\* hundredths, or <<>> when the token is no number
ScoreToken ==
    [l \in {"Relevance: LOW (score: 1.5) | Topics: A, B", "(score: 1.2.3)"} |->
        IF l = "(score: 1.2.3)" THEN <<>> ELSE <<150>>]

\* The lines of LineTexts that hold a Topics list
TopicsLines == {"Relevance: LOW (score: 1.5) | Topics: A, B"}

\* The lines of the k-th item of a document: from its item-start line to
\* the line before the next item-start line
OwnLines(lines, k) ==
    LET starts == ItemStarts(lines)
    IN  starts[k]..(IF k < Len(starts) THEN starts[k + 1] - 1 ELSE Len(lines))

\* C17: every item-start line yields exactly one item; an item whose
\* score token is missing or no valid number has relevance_score 0, an
\* item with no Topics list has no categories, an item before any section
\* header is emitted with source "unknown"; a document with no item-start
\* line gives no items, and the documents after it are parsed.
C17_ParseMissesAbsorbedPerItem ==
    /\ fn.op = "parse_issue_body" =>
          \A d \in 1..Len(fn.out) :
              LET lines == fn.arg[d]
                  starts == ItemStarts(lines)
              IN  /\ Len(fn.out[d]) = Len(starts)
                  /\ \A k \in 1..Len(starts) :
                        LET item == fn.out[d][k]
                            scored == {i \in OwnLines(lines, k) :
                                          lines[i] \in DOMAIN ScoreToken}
                            first == CHOOSE i \in scored : \A j \in scored : i <= j
                        IN  /\ item.url = ItemStartUrl[lines[starts[k]]]
                            /\ (scored = {} \/ ScoreToken[lines[first]] = <<>>)
                                   => item.relevance_score = 0
                            /\ (\A i \in OwnLines(lines, k) : lines[i] \notin TopicsLines)
                                   => item.matched_categories = <<>>
                            /\ SectionAt(lines, starts[k]) = "unknown"
                                   => item.source = "unknown"
    /\ (fn.op = "parse_issue_body" /\ fn.done) => Len(fn.out) = Len(fn.arg)

----------------------------------------------------------------------------
(* The daily issue: format_daily_issue with lang = "en", and the parser    *)
(* applied to the body it renders.  Scores are in hundredths.  The         *)
(* backtick, which no pattern of the parser mentions, is written ' here.   *)

MaxSectionItems == 2

\* _LABELS["en"]
_LABELS ==
    [github_updates |-> "GitHub Updates", new_releases |-> "New Releases",
     trending_repos |-> "Trending Repos", arxiv_papers |-> "arXiv Papers",
     papers_with_code |-> "Papers with Code", relevance |-> "Relevance",
     score |-> "score", topics |-> "Topics", authors |-> "Authors",
     categories |-> "Categories", language |-> "Language",
     stars |-> "Stars", today |-> "today", high |-> "HIGH",
     medium |-> "MEDIUM", low |-> "LOW",
     daily_title |-> "LLM Research & Tech Daily Update",
     summary_github |-> "GitHub updates", summary_arxiv |-> "arXiv papers",
     summary_pwc |-> "Papers with Code",
     no_items |-> "No new items matching the configured keywords were found today.",
     weekly_hint |-> "**Generate Weekly Summary**: Comment '/weekly-summary' on this issue to trigger a weekly digest of the most important updates."]

_l(key) == _LABELS[key]

\* str(n) of a natural number
RECURSIVE IntStr(_)
IntStr(n) == IF n < 10 THEN Digit(n) ELSE IntStr(n \div 10) \o Digit(n % 10)

\* format(n, ","): the digits in groups of three
RECURSIVE Thousands(_)
Thousands(n) ==
    IF n < 1000 THEN IntStr(n)
    ELSE Thousands(n \div 1000) \o "," \o Digit((n \div 100) % 10)
         \o Digit((n \div 10) % 10) \o Digit(n % 10)

\* str(x) of the float of h hundredths: the shortest decimal that gives
\* the float back, with one decimal at least
FloatStr(h) ==
    IntStr(h \div 100) \o "." \o Digit((h \div 10) % 10)
    \o (IF h % 10 = 0 THEN "" ELSE Digit(h % 10))

_score_badge(score) ==
    IF score >= 400 THEN _l("high")
    ELSE IF score >= 200 THEN _l("medium")
    ELSE _l("low")

_truncate(text, max_len) ==
    IF Len(text) <= max_len THEN text
    ELSE RStrip(SubSeq(text, 1, max_len)) \o "..."

\* _get_summary for lang = "en": the summary, or the truncated fallback
\* field
_get_summary(item, fallback_field) ==
    IF item.summary_en # "" THEN item.summary_en
    ELSE IF item[fallback_field] # "" THEN _truncate(item[fallback_field], 300)
    ELSE ""

\* names[:3]
First3(names) == SubSeq(names, 1, Min(3, Len(names)))

\* ", ".join(names[:3]), with " et al." after more than three
AuthorsOf(names) ==
    JoinWith(", ", First3(names)) \o (IF Len(names) > 3 THEN " et al." ELSE "")

ArxivPaper(title, url, pdf_url, authors, categories, abstract, relevance_score, matched_categories) ==
    [title |-> title, url |-> url, pdf_url |-> pdf_url, authors |-> authors,
     categories |-> categories, abstract |-> abstract, summary_en |-> "",
     relevance_score |-> relevance_score,
     matched_categories |-> matched_categories]

GitHubItem(item_type, repo_name, url, release_tag, stars, stars_today, language, description, relevance_score, matched_categories) ==
    [item_type |-> item_type, repo_name |-> repo_name, url |-> url,
     release_tag |-> release_tag, stars |-> stars,
     stars_today |-> stars_today, language |-> language,
     description |-> description, summary_en |-> "",
     relevance_score |-> relevance_score,
     matched_categories |-> matched_categories]

PwcPaper(title, url_abs, url_pdf, repository_url, stars, authors, abstract, relevance_score, matched_categories) ==
    [title |-> title, url_abs |-> url_abs, url_pdf |-> url_pdf,
     repository_url |-> repository_url, stars |-> stars,
     authors |-> authors, abstract |-> abstract, summary_en |-> "",
     relevance_score |-> relevance_score,
     matched_categories |-> matched_categories]

\* Lines 134-156: the lines of the i-th paper of the arXiv section
ArxivEntry(i, paper) ==
    LET badge == _score_badge(paper.relevance_score)
        cats == IF paper.matched_categories # <<>>
                THEN JoinWith(", ", paper.matched_categories) ELSE "general"
        summary_text == _get_summary(paper, "abstract")
    IN  << "### " \o IntStr(i) \o ". [" \o paper.title \o "](" \o paper.url \o ")",
           "**" \o _l("relevance") \o ": " \o badge \o "** ("
               \o _l("score") \o ": " \o FloatStr(paper.relevance_score)
               \o ") | **" \o _l("topics") \o "**: " \o cats,
           "**" \o _l("authors") \o "**: " \o AuthorsOf(paper.authors)
               \o " | **" \o _l("categories") \o "**: "
               \o JoinWith(", ", First3(paper.categories)) >>
        \o (IF summary_text # "" THEN <<"\n> " \o summary_text \o "\n">>
            ELSE <<>>)
        \o <<"[PDF](" \o paper.pdf_url \o ")\n">>

RECURSIVE ArxivEntries(_, _)
ArxivEntries(papers, i) ==
    IF i > Len(papers) THEN <<>>
    ELSE ArxivEntry(i, papers[i]) \o ArxivEntries(papers, i + 1)

format_arxiv_section(papers) ==
    IF papers = <<>> THEN ""
    ELSE JoinWith("\n",
             <<"## " \o _l("arxiv_papers") \o " (" \o IntStr(Len(papers)) \o ")\n">>
             \o ArxivEntries(papers, 1))

\* Lines 187-191, 208-212: the relevance line of a GitHub item
GitHubRelevance(item) ==
    LET cats == JoinWith(", ", item.matched_categories)
    IN  _l("relevance") \o ": " \o _score_badge(item.relevance_score) \o " ("
        \o _l("score") \o ": " \o FloatStr(item.relevance_score) \o ")"
        \o (IF cats # "" THEN " | " \o _l("topics") \o ": " \o cats ELSE "")

\* Lines 192-196, 215-219: the summary of a GitHub item, or an empty line
GitHubSummary(item) ==
    LET summary_text == _get_summary(item, "description")
    IN  IF summary_text # "" THEN <<"\n> " \o summary_text \o "\n">>
        ELSE <<"">>

\* Lines 181-196: the lines of the i-th release
ReleaseEntry(i, item) ==
    LET tag_str == IF item.release_tag # ""
                   THEN " '" \o item.release_tag \o "'" ELSE ""
    IN  << "**" \o IntStr(i) \o ". [" \o item.repo_name \o "](" \o item.url
               \o ")**" \o tag_str,
           GitHubRelevance(item) >>
        \o GitHubSummary(item)

\* Lines 200-219: the lines of the i-th trending repository
TrendingEntry(i, item) ==
    LET stars_info ==
            _l("stars") \o ": " \o Thousands(item.stars)
            \o (IF item.stars_today # 0
                THEN " (+" \o Thousands(item.stars_today) \o " " \o _l("today") \o ")"
                ELSE "")
    IN  << "**" \o IntStr(i) \o ". [" \o item.repo_name \o "](" \o item.url
               \o ")** | " \o stars_info,
           GitHubRelevance(item) >>
        \o (IF item.language # ""
            THEN <<_l("language") \o ": " \o item.language>> ELSE <<>>)
        \o GitHubSummary(item)

RECURSIVE ReleaseEntries(_, _)
ReleaseEntries(releases, i) ==
    IF i > Len(releases) THEN <<>>
    ELSE ReleaseEntry(i, releases[i]) \o ReleaseEntries(releases, i + 1)

RECURSIVE TrendingEntries(_, _)
TrendingEntries(trending, i) ==
    IF i > Len(trending) THEN <<>>
    ELSE TrendingEntry(i, trending[i]) \o TrendingEntries(trending, i + 1)

format_github_section(items) ==
    LET IsRelease(item) == item.item_type = "release"
        IsTrending(item) == item.item_type = "trending"
        releases == SelectSeq(items, IsRelease)
        trending == SelectSeq(items, IsTrending)
    IN  IF items = <<>> THEN ""
        ELSE JoinWith("\n",
                 <<"## " \o _l("github_updates") \o " (" \o IntStr(Len(items)) \o ")\n">>
                 \o (IF releases # <<>>
                     THEN <<"### " \o _l("new_releases") \o "\n">>
                          \o ReleaseEntries(releases, 1)
                     ELSE <<>>)
                 \o (IF trending # <<>>
                     THEN <<"### " \o _l("trending_repos") \o "\n">>
                          \o TrendingEntries(trending, 1)
                     ELSE <<>>))

\* Lines 239-267: the lines of the i-th paper of the Papers with Code
\* section
PwcEntry(i, paper) ==
    LET cats == JoinWith(", ", paper.matched_categories)
        summary_text == _get_summary(paper, "abstract")
        star_str == IF paper.stars # 0
                    THEN " (" \o Thousands(paper.stars) \o " stars)" ELSE ""
        link_parts ==
            (IF paper.url_pdf # "" THEN <<"[PDF](" \o paper.url_pdf \o ")">>
             ELSE <<>>)
            \o (IF paper.repository_url # ""
                THEN <<"[Code](" \o paper.repository_url \o ")" \o star_str>>
                ELSE <<>>)
    IN  << "### " \o IntStr(i) \o ". [" \o paper.title \o "](" \o paper.url_abs \o ")",
           "**" \o _l("relevance") \o ": " \o _score_badge(paper.relevance_score)
               \o "** (" \o _l("score") \o ": "
               \o FloatStr(paper.relevance_score) \o ")"
               \o (IF cats # "" THEN " | **" \o _l("topics") \o "**: " \o cats
                   ELSE "") >>
        \o (IF paper.authors # <<>>
            THEN <<"**" \o _l("authors") \o "**: " \o AuthorsOf(paper.authors)>>
            ELSE <<>>)
        \o (IF summary_text # "" THEN <<"\n> " \o summary_text \o "\n">>
            ELSE <<>>)
        \o (IF link_parts # <<>> THEN <<JoinWith(" | ", link_parts) \o "\n">>
            ELSE <<>>)

RECURSIVE PwcEntries(_, _)
PwcEntries(papers, i) ==
    IF i > Len(papers) THEN <<>>
    ELSE PwcEntry(i, papers[i]) \o PwcEntries(papers, i + 1)

format_pwc_section(papers) ==
    IF papers = <<>> THEN ""
    ELSE JoinWith("\n",
             <<"## " \o _l("papers_with_code") \o " (" \o IntStr(Len(papers)) \o ")\n">>
             \o PwcEntries(papers, 1))

\* A section, when it is not empty, and the rule after it
SectionPart(md) == IF md # "" THEN <<md, "---\n">> ELSE <<>>

\* format_daily_issue with lang = "en": [title, body]
format_daily_issue(arxiv_papers, github_items, pwc_papers, date_str) ==
    LET total == Len(arxiv_papers) + Len(github_items) + Len(pwc_papers)
        body_parts ==
            << "# " \o _l("daily_title") \o " - " \o date_str \o "\n",
               "**" \o IntStr(Len(github_items)) \o "** " \o _l("summary_github")
                   \o " | **" \o IntStr(Len(arxiv_papers)) \o "** "
                   \o _l("summary_arxiv") \o " | **"
                   \o IntStr(Len(pwc_papers)) \o "** " \o _l("summary_pwc") \o "\n",
               "---\n" >>
            \o SectionPart(format_github_section(github_items))
            \o SectionPart(format_arxiv_section(arxiv_papers))
            \o SectionPart(format_pwc_section(pwc_papers))
            \o (IF total = 0 THEN <<"*" \o _l("no_items") \o "*\n">> ELSE <<>>)
            \o <<"\n---\n" \o _l("weekly_hint") \o "\n">>
    IN  [title |-> "LLM Daily Update - " \o date_str \o " ("
                   \o IntStr(total) \o " items)",
         body |-> JoinWith("\n", body_parts)]

\* Scored arXiv papers: with and without abstract
ArxivValues ==
    { ArxivPaper("T1", "http://a/1", "http://a/1.pdf", <<"A B", "C D">>,
                 <<"cs.CL">>, "An abstract.", 312, <<"llm", "core">>),
      ArxivPaper("T2", "http://a/2", "http://a/2.pdf", <<"E F">>,
                 <<"cs.AI", "cs.LG">>, "", 100, <<"llm">>) }

\* Scored GitHub items: a release with a tag and a description, a
\* trending repository without description
GitHubValues ==
    { GitHubItem("release", "o/r1", "http://g/1", "v1", 0, 0, "",
                 "A release.", 200, <<"llm">>),
      GitHubItem("trending", "o/r3", "http://g/3", "", 1234, 5, "Python",
                 "", 450, <<"core", "agents">>) }

\* Scored Papers-with-Code papers
PwcValues ==
    { PwcPaper("P1", "http://p/1", "http://p/1.pdf", "", 0, <<"G H">>,
               "An abstract.", 250, <<"llm">>),
      PwcPaper("P2", "http://p/2", "", "http://g/c", 54321, <<>>,
               "", 150, <<"core">>) }

InitFormat ==
    /\ file = [kind |-> "missing", content |-> EmptyData]
    /\ loaded = EmptyData /\ data = EmptyData /\ now = Epoch /\ pc = "start"
    /\ ret = [op |-> "none", arg |-> <<>>, val |-> <<>>,
              repeat |-> [is |-> FALSE, val |-> <<>>]]
    /\ agg = Idle /\ ranking = Idle /\ scoring = Idle
    /\ \E arxiv_papers \in SeqsUpTo(ArxivValues, MaxSectionItems) :
          \E github_items \in SeqsUpTo(GitHubValues, MaxSectionItems) :
              \E pwc_papers \in SeqsUpTo(PwcValues, MaxSectionItems) :
                  fn = [done |-> FALSE, op |-> "none",
                        arg |-> [arxiv_papers |-> arxiv_papers,
                                 github_items |-> github_items,
                                 pwc_papers |-> pwc_papers],
                        out |-> <<>>]

\* format_daily_issue on the filtered items, as main.py calls it
FormatDailyIssue ==
    /\ ~fn.done /\ fn.op = "none"
    /\ fn' = [fn EXCEPT !.op = "format_daily_issue",
                        !.out = format_daily_issue(fn.arg.arxiv_papers,
                                                   fn.arg.github_items,
                                                   fn.arg.pwc_papers,
                                                   "2026-01-01")]
    /\ UNCHANGED <<file, loaded, data, now, pc, ret, agg, ranking, scoring>>

\* _parse_issue_body on the body of the daily issue
ParseDailyIssue ==
    /\ ~fn.done /\ fn.op = "format_daily_issue"
    /\ fn' = [fn EXCEPT !.done = TRUE, !.op = "parse_daily_issue",
                        !.out = [title |-> fn.out.title, body |-> fn.out.body,
                                 items |-> parse_issue_body(fn.out.body)]]
    /\ UNCHANGED <<file, loaded, data, now, pc, ret, agg, ranking, scoring>>

NextFormat == FormatDailyIssue \/ ParseDailyIssue

SpecFormat == InitFormat /\ [][NextFormat]_vars

\* Some parsed item has the URL, the source, the score and the categories
ParsedBack(items, url, source, score, cats) ==
    \E k \in 1..Len(items) :
        /\ items[k].url = url
        /\ items[k].source = source
        /\ items[k].relevance_score = score
        /\ items[k].matched_categories = cats

\* C18: for every item rendered by format_daily_issue in English, the
\* parser applied to the rendered body yields an item with that item's
\* URL, the source of its section, its score and its matched categories.
C18_RenderingParsesBack ==
    fn.op = "parse_daily_issue" =>
        /\ \A x \in Range(fn.arg.arxiv_papers) :
              ParsedBack(fn.out.items, x.url, "arxiv",
                         x.relevance_score, x.matched_categories)
        /\ \A x \in Range(fn.arg.github_items) :
              ParsedBack(fn.out.items, x.url, "github",
                         x.relevance_score, x.matched_categories)
        /\ \A x \in Range(fn.arg.pwc_papers) :
              ParsedBack(fn.out.items, x.url_abs, "pwc",
                         x.relevance_score, x.matched_categories)

----------------------------------------------------------------------------
(* Python floats: IEEE 754 double precision, for the non-negative values   *)
(* far from overflow and underflow that scores are.  A natural number of   *)
(* any size is a sequence of limbs, least significant first, without      *)
(* leading zero limbs; a float is [m, e], the value m * 2^e with m of      *)
(* Precision bits exactly, or m = <<>> for 0.0.                            *)

\* The bits of a limb
LimbBits == 15

\* The base of the limbs, 2^LimbBits
Base == 32768

\* The bits of the significand of a double
Precision == 53

RECURSIVE Pow2(_)
Pow2(n) == IF n = 0 THEN 1 ELSE 2 * Pow2(n - 1)

RECURSIVE BigOfInt(_)
BigOfInt(n) == IF n = 0 THEN <<>> ELSE <<n % Base>> \o BigOfInt(n \div Base)

\* a + b + carry
RECURSIVE BigAddC(_, _, _)
BigAddC(a, b, carry) ==
    IF a = <<>> /\ b = <<>> THEN BigOfInt(carry)
    ELSE LET x == IF a = <<>> THEN 0 ELSE Head(a)
             y == IF b = <<>> THEN 0 ELSE Head(b)
             ta == IF a = <<>> THEN <<>> ELSE Tail(a)
             tb == IF b = <<>> THEN <<>> ELSE Tail(b)
             sum == x + y + carry
         IN  <<sum % Base>> \o BigAddC(ta, tb, sum \div Base)

BigAdd(a, b) == BigAddC(a, b, 0)

\* a * k + carry, for a limb k
RECURSIVE BigMulSmall(_, _, _)
BigMulSmall(a, k, carry) ==
    IF a = <<>> \/ k = 0 THEN BigOfInt(carry)
    ELSE LET p == Head(a) * k + carry
         IN  <<p % Base>> \o BigMulSmall(Tail(a), k, p \div Base)

\* a with n zero limbs below it
ShiftLimbs(a, n) == IF a = <<>> THEN <<>> ELSE [i \in 1..n |-> 0] \o a

RECURSIVE BigMul(_, _)
BigMul(a, b) ==
    IF a = <<>> \/ b = <<>> THEN <<>>
    ELSE BigAdd(BigMulSmall(a, Head(b), 0),
                ShiftLimbs(BigMul(a, Tail(b)), 1))

\* The quotient (limbs) and remainder of a by the limb d, from the top
\* limb down
RECURSIVE BigDivLoop(_, _, _)
BigDivLoop(a, d, k) ==
    IF k > Len(a) THEN [q |-> <<>>, r |-> 0]
    ELSE LET above == BigDivLoop(a, d, k + 1)
             x == above.r * Base + a[k]
         IN  [q |-> <<x \div d>> \o above.q, r |-> x % d]

\* Without the zero limbs at the top
RECURSIVE Normal(_)
Normal(a) ==
    IF a = <<>> THEN <<>>
    ELSE IF a[Len(a)] = 0 THEN Normal(SubSeq(a, 1, Len(a) - 1))
    ELSE a

BigDivSmall(a, d) ==
    LET end == BigDivLoop(a, d, 1)
    IN  [q |-> Normal(end.q), r |-> end.r]

RECURSIVE BitsOf(_)
BitsOf(n) == IF n = 0 THEN 0 ELSE 1 + BitsOf(n \div 2)

BitLen(a) ==
    IF a = <<>> THEN 0 ELSE (Len(a) - 1) * LimbBits + BitsOf(a[Len(a)])

\* Bit i of a, bit 0 being the lowest
Bit(a, i) ==
    IF i \div LimbBits + 1 > Len(a) THEN 0
    ELSE (a[i \div LimbBits + 1] \div Pow2(i % LimbBits)) % 2

\* a * 2^n
Shl(a, n) ==
    ShiftLimbs(BigMulSmall(a, Pow2(n % LimbBits), 0), n \div LimbBits)

\* a \div 2^n
Shr(a, n) ==
    LET limbs == n \div LimbBits
    IN  IF limbs >= Len(a) THEN <<>>
        ELSE BigDivSmall(SubSeq(a, limbs + 1, Len(a)),
                         Pow2(n % LimbBits)).q

\* a < b on Python tuples of numbers
RECURSIVE TupleLT(_, _)
TupleLT(a, b) ==
    IF b = <<>> THEN FALSE
    ELSE IF a = <<>> THEN TRUE
    ELSE IF Head(a) # Head(b) THEN Head(a) < Head(b)
    ELSE TupleLT(Tail(a), Tail(b))

Zero == [m |-> <<>>, e |-> 0]

\* The double nearest to n * 2^e (plus a little, when inexact says that
\* n was cut short), ties going to the even significand
RoundToDouble(n, e, inexact) ==
    LET len == BitLen(n)
        cut == len - Precision
    IN  IF n = <<>> THEN Zero
        ELSE IF cut <= 0 THEN [m |-> Shl(n, -cut), e |-> e + cut]
        ELSE LET kept == Shr(n, cut)
                 half == Bit(n, cut - 1) = 1
                 rest == inexact \/ \E i \in 0..(cut - 2) : Bit(n, i) = 1
                 up == half /\ (rest \/ Bit(kept, 0) = 1)
                 m == IF up THEN BigAdd(kept, <<1>>) ELSE kept
             IN  IF BitLen(m) > Precision
                 THEN [m |-> Shr(m, 1), e |-> e + cut + 1]
                 ELSE [m |-> m, e |-> e + cut]

\* float(n) of an int n
FloatOfInt(n) == RoundToDouble(BigOfInt(n), 0, FALSE)

\* The float nearest to n / d, for a limb d
FloatOfRatio(n, d) ==
    LET q == BigDivSmall(Shl(BigOfInt(n), 5 * LimbBits), d)
    IN  RoundToDouble(q.q, -(5 * LimbBits), q.r # 0)

\* The float that a decimal with two places denotes (a literal, the
\* result of float(text) or of round(x, 2)), given in hundredths
FloatOfHundredths(h) == FloatOfRatio(h, 100)

\* x * y
FloatMul(x, y) == RoundToDouble(BigMul(x.m, y.m), x.e + y.e, FALSE)

\* x + y
FloatAdd(x, y) ==
    LET e == IF x.m = <<>> THEN y.e
             ELSE IF y.m = <<>> THEN x.e ELSE Min(x.e, y.e)
    IN  RoundToDouble(BigAdd(Shl(x.m, Max(x.e - e, 0)),
                             Shl(y.m, Max(y.e - e, 0))), e, FALSE)

\* The key by which floats compare: the exponent, then the limbs of the
\* significand from the top (0.0 sorts below every positive float)
FloatKey(x) ==
    IF x.m = <<>> THEN <<-Base, 0, 0, 0, 0>>
    ELSE <<x.e, x.m[4], x.m[3], x.m[2], x.m[1]>>

\* x < y
FloatLT(x, y) == TupleLT(FloatKey(x), FloatKey(y))

----------------------------------------------------------------------------
(* Ranking: rank_items *)

MaxRankItems == 3

\* weighted_score with the boost of an appearance at 0.1
weighted_score_half_boost(item) ==
    FloatMul(FloatOfHundredths(item.relevance_score),
             FloatAdd(FloatOfInt(1),
                      FloatMul(FloatOfHundredths(10),
                               FloatOfInt(item.appearances - 1))))

\* AggregatedItem.weighted_score: the float
\* relevance_score * (1 + 0.2 * (appearances - 1)); the relevance_score
\* of an item is held in hundredths and is the float of that decimal.
weighted_score(item) ==
    FloatMul(FloatOfHundredths(item.relevance_score),
             FloatAdd(FloatOfInt(1),
                      FloatMul(FloatOfHundredths(20),
                               FloatOfInt(item.appearances - 1))))

\* sorted(range, key=keys, reverse=True) after the first n elements: the
\* positions 1..n, by key descending, equal keys in their input order
RECURSIVE SortedDescLoop(_, _)
SortedDescLoop(keys, n) ==
    IF n = 0 THEN <<>>
    ELSE LET before == SortedDescLoop(keys, n - 1)
             NotLess(j) == ~TupleLT(keys[j], keys[n])
             Less(j) == TupleLT(keys[j], keys[n])
         IN  SelectSeq(before, NotLess) \o <<n>> \o SelectSeq(before, Less)

\* sorted(s, key=..., reverse=True), keys[k] being the key of s[k]
SortedDesc(s, keys) ==
    LET order == SortedDescLoop(keys, Len(s))
    IN  [k \in 1..Len(s) |-> s[order[k]]]

\* s[:n]
SliceTo(s, n) ==
    IF n >= 0 THEN SubSeq(s, 1, Min(n, Len(s)))
    ELSE SubSeq(s, 1, Max(Len(s) + n, 0))

\* The key of lines 30-34 without the number of categories
RankKeyNoBreadth(x) ==
    FloatKey(weighted_score(x.item)) \o <<x.item.appearances>>

\* The key of lines 30-34
RankKey(x) ==
    FloatKey(weighted_score(x.item))
        \o <<Len(x.item.matched_categories), x.item.appearances>>

rank_items(items, top_n) ==
    LET ranked == SortedDesc(items, [k \in 1..Len(items) |-> RankKey(items[k])])
    IN  SliceTo(ranked, top_n)

\* A list of AggregatedItem objects: each element is an object of its own,
\* named by its position.
ObjectsOf(values) ==
    [k \in 1..Len(values) |-> [obj |-> k, item |-> values[k]]]

Scored(title, relevance_score, matched_categories, appearances) ==
    [AggregatedItem(title, title, "arxiv", relevance_score,
                    matched_categories, "")
        EXCEPT !.appearances = appearances]

\* Items to rank: two equal on the three keys, one with the same weighted
\* score and more categories, a pair with equal weighted score (2.4) and
\* categories and different appearances, and one below them all.
RankValues ==
    { Scored("p", 300, <<"A">>, 1), Scored("q", 300, <<"A">>, 1),
      Scored("r", 300, <<"A", "B">>, 1), Scored("s", 240, <<"A">>, 1),
      Scored("t", 200, <<"A">>, 2), Scored("v", 150, <<>>, 1) }

InitRank ==
    /\ file = [kind |-> "missing", content |-> EmptyData]
    /\ loaded = EmptyData /\ data = EmptyData /\ now = Epoch /\ pc = "start"
    /\ ret = [op |-> "none", arg |-> <<>>, val |-> <<>>,
              repeat |-> [is |-> FALSE, val |-> <<>>]]
    /\ agg = Idle /\ scoring = Idle /\ fn = Idle
    /\ \E values \in SeqsUpTo(RankValues, MaxRankItems) :
       \E top_n \in 0..(MaxRankItems + 1) :
          ranking = [done |-> FALSE, items |-> ObjectsOf(values),
                     top_n |-> top_n, out |-> <<>>]

\* The call with items.sort(...) in place of sorted(items, ...)
rank_items_sort_in_place(items, top_n) ==
    LET ranked == SortedDesc(items, [k \in 1..Len(items) |-> RankKey(items[k])])
    IN  [items |-> ranked, out |-> SliceTo(ranked, top_n)]

\* The call of rank_items: the list passed in as it is after the call
\* (sorted() builds a new list, the slice another one, and the key only
\* reads the elements), and the list returned
rank_items_call(items, top_n) ==
    [items |-> items, out |-> rank_items(items, top_n)]

RankItems ==
    /\ ~ranking.done
    /\ LET end == rank_items_call(ranking.items, ranking.top_n)
       IN  ranking' = [ranking EXCEPT
                         !.done = TRUE, !.items = end.items, !.out = end.out]
    /\ UNCHANGED <<file, loaded, data, now, pc, ret, agg, scoring, fn>>

NextRank == RankItems

SpecRank == InitRank /\ [][NextRank]_vars

----------------------------------------------------------------------------
(* Properties of rank_items *)

\* x ranks before y: by weighted score, then by the number of matched
\* categories, then by appearances, each descending, then by input order.
RanksBefore(x, y) ==
    LET wx == weighted_score(x.item)
        wy == weighted_score(y.item)
        cx == Len(x.item.matched_categories)
        cy == Len(y.item.matched_categories)
        ax == x.item.appearances
        ay == y.item.appearances
    IN  \/ FloatLT(wy, wx)
        \/ wx = wy /\ cx > cy
        \/ wx = wy /\ cx = cy /\ ax > ay
        \/ wx = wy /\ cx = cy /\ ax = ay /\ x.obj < y.obj

\* C4: rank_items returns min(top_n, len) of the input elements, each
\* ranking before the ones after it and before every element left out.
C4_TopNInRankOrder ==
    ranking.done =>
        LET out == ranking.out
            in  == ranking.items
        IN  /\ Len(out) = Min(ranking.top_n, Len(in))
            /\ Range(out) \subseteq Range(in)
            /\ \A i, j \in 1..Len(out) : i < j => RanksBefore(out[i], out[j])
            /\ \A x \in Range(in) \ Range(out) :
                  \A y \in Range(out) : RanksBefore(y, x)

\* Two items with equal weighted score were returned with the one with two
\* categories first, though it came later in the input.
C4_Witness ==
    /\ ranking.done
    /\ \E i, j \in 1..Len(ranking.out) :
          LET x == ranking.out[i]
              y == ranking.out[j]
          IN  /\ i < j
              /\ x.obj > y.obj
              /\ weighted_score(x.item) = weighted_score(y.item)
              /\ Len(x.item.matched_categories) = 2
              /\ Len(y.item.matched_categories) = 1

\* C23: rank_items is pure: after the call the input list holds the same
\* elements in the same order, no field of any element has changed, and
\* every returned element is one of the input elements, none returned
\* twice.
C23_RankItemsIsPure ==
    [][RankItems =>
        /\ ranking'.items = ranking.items
        /\ \A k \in 1..Len(ranking'.out) :
              \E i \in 1..Len(ranking.items) :
                 ranking'.out[k] = ranking.items[i]
        /\ \A j, k \in 1..Len(ranking'.out) :
              ranking'.out[j].obj = ranking'.out[k].obj => j = k
    ]_vars

\* Three items were ranked into an order that is not the input order, two
\* of them with the same fields.
C23_Witness ==
    /\ ranking.done
    /\ Len(ranking.items) = 3 /\ Len(ranking.out) = 3
    /\ ranking.out[1].obj = 3
    /\ ranking.items[1].item = ranking.items[2].item

----------------------------------------------------------------------------
(* AggregatedItem.weighted_score *)

\* The highest relevance_score, in hundredths
MaxRelevance == 400

MaxAppearances == 7

InitWeight ==
    /\ file = [kind |-> "missing", content |-> EmptyData]
    /\ loaded = EmptyData /\ data = EmptyData /\ now = Epoch /\ pc = "start"
    /\ ret = [op |-> "none", arg |-> <<>>, val |-> <<>>,
              repeat |-> [is |-> FALSE, val |-> <<>>]]
    /\ agg = Idle /\ ranking = Idle /\ scoring = Idle
    /\ \E relevance_score \in 0..MaxRelevance :
       \E appearances \in 1..MaxAppearances :
          fn = [done |-> FALSE, op |-> "none",
                arg |-> Scored("w", relevance_score, <<>>, appearances),
                out |-> Zero]

\* The property weighted_score is read
WeightedScore ==
    /\ ~fn.done
    /\ fn' = [fn EXCEPT !.done = TRUE, !.op = "weighted_score",
                        !.out = weighted_score(fn.arg)]
    /\ UNCHANGED <<file, loaded, data, now, pc, ret, agg, ranking, scoring>>

NextWeight == WeightedScore

SpecWeight == InitWeight /\ [][NextWeight]_vars

\* The float after x
NextFloat(x) ==
    LET m == BigAdd(x.m, <<1>>)
    IN  IF BitLen(m) > Precision THEN [m |-> Shr(m, 1), e |-> x.e + 1]
        ELSE [m |-> m, e |-> x.e]

RECURSIVE FloatsAfter(_, _)
FloatsAfter(x, n) ==
    IF n = 0 THEN {x} ELSE {x} \cup FloatsAfter(NextFloat(x), n - 1)

\* x and y are n floats apart at most
WithinUlps(x, y, n) == x \in FloatsAfter(y, n) \/ y \in FloatsAfter(x, n)

\* The float nearest to the product relevance_score x (1 + 0.2 x
\* (appearances - 1)) of the decimal relevance_score
ExactProduct(item) ==
    FloatOfRatio(item.relevance_score * (10 + 2 * (item.appearances - 1)),
                 1000)

\* C15, as claimed: weighted_score is the number relevance_score x
\* (1 + 0.2 x (appearances - 1)): relevance_score for appearances 1, 3.6
\* for 3.0 with appearances 2, and not less with one more appearance.
C15_WeightedScoreIsTheProduct ==
    (fn.done /\ fn.op = "weighted_score") =>
        LET item == fn.arg
            more == [item EXCEPT !.appearances = @ + 1]
        IN  /\ fn.out = ExactProduct(item)
            /\ item.appearances = 1
                   => fn.out = FloatOfHundredths(item.relevance_score)
            /\ (item.relevance_score = 300 /\ item.appearances = 2)
                   => fn.out = FloatOfHundredths(360)
            /\ ~FloatLT(weighted_score(more), fn.out)

\* C15, amended: weighted_score is the floating-point value of
\* relevance_score * (1 + 0.2 * (appearances - 1)): relevance_score for
\* appearances 1, within 6 floats of the float nearest to the product,
\* the float just below 3.6 for 3.0 with appearances 2, and not less
\* with one more appearance.
C15_WeightedScoreIsTheRoundedProduct ==
    (fn.done /\ fn.op = "weighted_score") =>
        LET item == fn.arg
            more == [item EXCEPT !.appearances = @ + 1]
        IN  /\ WithinUlps(fn.out, ExactProduct(item), 6)
            /\ item.appearances = 1
                   => fn.out = FloatOfHundredths(item.relevance_score)
            /\ (item.relevance_score = 300 /\ item.appearances = 2)
                   => NextFloat(fn.out) = FloatOfHundredths(360)
            /\ ~FloatLT(weighted_score(more), fn.out)

\* The weighted score of relevance_score 3.0 with appearances 2 was read.
C15_Witness ==
    /\ fn.done /\ fn.op = "weighted_score"
    /\ fn.arg.relevance_score = 300 /\ fn.arg.appearances = 2
    /\ FloatLT(fn.out, FloatOfHundredths(360))

----------------------------------------------------------------------------
(* Keyword scoring: KeywordCategory, score_text *)

\* A text is a sequence of one-character strings.

\* \w of the regular expression
IsWord(c) ==
    \/ Lower(c) \in LowerCase
    \/ c \in {"0", "1", "2", "3", "4", "5", "6", "7", "8", "9", "_"}

\* \b before position p of the text (p = Len(text) + 1 is the end)
Boundary(text, p) ==
    LET before == p > 1 /\ IsWord(text[p - 1])
        after == p <= Len(text) /\ IsWord(text[p])
    IN  before # after

\* \b + re.escape(term) + \b matches at position p
MatchesAt(term, text, p) ==
    /\ p + Len(term) - 1 <= Len(text)
    /\ Boundary(text, p)
    /\ \A k \in 1..Len(term) : Lower(text[p + k - 1]) = Lower(term[k])
    /\ Boundary(text, p + Len(term))

\* pattern.search(text) for the pattern compiled from term
Search(term, text) ==
    \E p \in 1..(Len(text) + 1) : MatchesAt(term, text, p)

\* KeywordCategory; the weight is in hundredths, and there is one pattern
\* for each element of terms
KeywordCategory(name, weight, terms) ==
    [name |-> name, weight |-> weight, terms |-> terms]

\* The inner loop of score_text: the number of patterns of the category
\* that the search finds in the text
RECURSIVE cat_matches(_, _, _)
cat_matches(cat, text, k) ==
    IF k = 0 THEN 0
    ELSE cat_matches(cat, text, k - 1)
         + (IF Search(cat.terms[k], text) THEN 1 ELSE 0)

\* n ** 0.5 for n = 1..6, in units of 10^-5, rounded to the nearest
Sqrt == <<100000, 141421, 173205, 200000, 223607, 244949>>

\* The contribution shared out over the matched terms: the weight divided
\* by the square root of the match count, in units of 10^-7
cat_score_shared(matches, weight) == (weight * 1000000) \div (Sqrt[matches] \div 10000)

\* The contribution without the square root
cat_score_linear(matches, weight) == matches * 100000 * weight

\* (cat_matches ** 0.5) * cat.weight, in units of 10^-7
cat_score(matches, weight) == Sqrt[matches] * weight

\* round(total_score, 2), from units of 10^-7 to hundredths
Round2(total_score) == (total_score + 50000) \div 100000

\* The loop of score_text over the first k categories
RECURSIVE score_text_loop(_, _, _)
score_text_loop(text, categories, k) ==
    IF k = 0 THEN [total_score |-> 0, matched_cats |-> <<>>]
    ELSE LET acc == score_text_loop(text, categories, k - 1)
             cat == categories[k]
             matches == cat_matches(cat, text, Len(cat.terms))
         IN  IF matches > 0
             THEN [total_score |->
                       acc.total_score + cat_score(matches, cat.weight),
                   matched_cats |-> Append(acc.matched_cats, cat.name)]
             ELSE acc

score_text(text, categories) ==
    LET end == score_text_loop(text, categories, Len(categories))
    IN  [score |-> Round2(end.total_score), matched |-> end.matched_cats]

----------------------------------------------------------------------------
(* Keyword filtering: filter_items *)

MaxScoreItems == 3

\* A collected item (ArxivPaper, GitHubItem, PwcPaper) as filter_items
\* reads it: a field the class does not have reads as the empty string
\* (getattr default), and the two result fields start at the dataclass
\* defaults.
Item(title, abstract, description, release_body) ==
    [title |-> title, abstract |-> abstract, description |-> description,
     release_body |-> release_body,
     relevance_score |-> 0, matched_categories |-> <<>>]

\* " ".join(text_parts)
RECURSIVE Join(_)
Join(text_parts) ==
    IF Len(text_parts) = 1 THEN text_parts[1]
    ELSE text_parts[1] \o <<" ">> \o Join(Tail(text_parts))

\* The title and the first non-empty one of the three fields only
ItemTextFirstField(item) ==
    LET NonEmpty(val) == val # <<>>
        fields == <<item.abstract, item.description, item.release_body>>
        found == SelectSeq(fields, NonEmpty)
    IN  Join(<<item.title>> \o SubSeq(found, 1, Min(1, Len(found))))

\* The text of lines 98-106: the title, then every non-empty one of the
\* abstract, the description and the release body
ItemText(item) ==
    LET NonEmpty(val) == val # <<>>
        fields == <<item.abstract, item.description, item.release_body>>
    IN  Join(<<item.title>> \o SelectSeq(fields, NonEmpty))

\* The threshold test with the boundary left out
PassesAbove(score, min_score) == score > min_score

\* The threshold test of line 109
Passes(score, min_score) == score >= min_score

\* filter_items: the list after the call (items are scored in place) and
\* the returned list; an element is [obj, item], obj being its position
\* in the input list.
filter_items(items, categories, min_score) ==
    LET result(k) == score_text(ItemText(items[k].item), categories)
        set(k) == [items[k] EXCEPT
                       !.item.relevance_score = result(k).score,
                       !.item.matched_categories = result(k).matched]
        after == [k \in 1..Len(items) |->
                     IF Passes(result(k).score, min_score)
                     THEN set(k) ELSE items[k]]
        Kept(x) == Passes(result(x.obj).score, min_score)
        scored == SelectSeq(after, Kept)
        keys == [k \in 1..Len(scored) |-> <<scored[k].item.relevance_score>>]
    IN  [items |-> after, out |-> SortedDesc(scored, keys)]

\* Items to score.  Texts: "AI"; "ai-ml rl nn" (a release with title,
\* description and body); "mail" (the letters of a term inside a word);
\* "go ml" (title and abstract); "ml".
ScoreValues ==
    { Item(<<"A", "I">>, <<>>, <<>>, <<>>),
      Item(<<"a", "i", "-", "m", "l">>, <<>>, <<"r", "l">>, <<"n", "n">>),
      Item(<<"m", "a", "i", "l">>, <<>>, <<>>, <<>>),
      Item(<<"g", "o">>, <<"m", "l">>, <<>>, <<>>),
      Item(<<"m", "l">>, <<>>, <<>>, <<>>) }

\* Category lists: one category with one term; one category with four
\* terms; a list holding a category without terms; one category whose
\* terms list holds the same term twice.
CategoryLists ==
    { <<KeywordCategory("llm", 200, << <<"a", "i">> >>)>>,
      <<KeywordCategory("core", 150,
            << <<"a", "i">>, <<"m", "l">>, <<"r", "l">>, <<"n", "n">> >>)>>,
      <<KeywordCategory("core", 100,
            << <<"a", "i">>, <<"m", "l">>, <<"r", "l">>, <<"n", "n">> >>),
        KeywordCategory("none", 150, <<>>),
        KeywordCategory("llm", 150, << <<"m", "l">>, <<"g", "o">> >>)>>,
      <<KeywordCategory("twice", 100, << <<"a", "i">>, <<"a", "i">> >>)>> }

\* min_score, in hundredths: the default 1.0 and 2.0
MinScores == {100, 200}

InitScore ==
    /\ file = [kind |-> "missing", content |-> EmptyData]
    /\ loaded = EmptyData /\ data = EmptyData /\ now = Epoch /\ pc = "start"
    /\ ret = [op |-> "none", arg |-> <<>>, val |-> <<>>,
              repeat |-> [is |-> FALSE, val |-> <<>>]]
    /\ agg = Idle /\ ranking = Idle /\ fn = Idle
    /\ \E values \in SeqsUpTo(ScoreValues, MaxScoreItems) :
       \E categories \in CategoryLists :
       \E min_score \in MinScores :
          scoring = [done |-> FALSE, op |-> "none",
                     items |-> ObjectsOf(values), categories |-> categories,
                     min_score |-> min_score, text |-> <<>>, out |-> <<>>]

ScoreText(text) ==
    /\ ~scoring.done
    /\ scoring' = [scoring EXCEPT
                     !.done = TRUE, !.op = "score_text", !.text = text,
                     !.out = score_text(text, scoring.categories)]
    /\ UNCHANGED <<file, loaded, data, now, pc, ret, agg, ranking, fn>>

FilterItems ==
    /\ ~scoring.done
    /\ LET end == filter_items(scoring.items, scoring.categories,
                               scoring.min_score)
       IN  scoring' = [scoring EXCEPT
                         !.done = TRUE, !.op = "filter_items",
                         !.items = end.items, !.out = end.out]
    /\ UNCHANGED <<file, loaded, data, now, pc, ret, agg, ranking, fn>>

\* score_text called on a second text with the same categories, as the
\* loop of filter_items calls it for one item after the other; both texts
\* and both results are kept.
ScoreTextAgain(text) ==
    /\ scoring.done /\ scoring.op = "score_text"
    /\ scoring' = [scoring EXCEPT
                     !.op = "score_text_again",
                     !.text = <<scoring.text, text>>,
                     !.out = <<scoring.out,
                               score_text(text, scoring.categories)>>]
    /\ UNCHANGED <<file, loaded, data, now, pc, ret, agg, ranking, fn>>

NextScore ==
    \/ \E v \in ScoreValues : ScoreText(ItemText(v))
    \/ \E v \in ScoreValues : ScoreTextAgain(ItemText(v))
    \/ FilterItems

SpecScore == InitScore /\ [][NextScore]_vars

----------------------------------------------------------------------------
(* Properties of score_text and filter_items *)

\* The number of terms of the category that match the text
MatchCount(cat, text) ==
    Cardinality({k \in 1..Len(cat.terms) : Search(cat.terms[k], text)})

\* The sum, over the categories with a match, of the square root of the
\* match count times the weight, in units of 10^-7
RECURSIVE SumOfRoots(_, _)
SumOfRoots(cats, text) ==
    IF cats = <<>> THEN 0
    ELSE LET count == MatchCount(Head(cats), text)
         IN  (IF count > 0 THEN Sqrt[count] * Head(cats).weight ELSE 0)
             + SumOfRoots(Tail(cats), text)

DistinctMatchCount(cat, text) ==
    Cardinality({cat.terms[k] : k \in {i \in 1..Len(cat.terms) :
                                            Search(cat.terms[i], text)}})

RECURSIVE SumOfDistinctRoots(_, _)
SumOfDistinctRoots(cats, text) ==
    IF cats = <<>> THEN 0
    ELSE LET count == DistinctMatchCount(Head(cats), text)
         IN  (IF count > 0 THEN Sqrt[count] * Head(cats).weight ELSE 0)
             + SumOfDistinctRoots(Tail(cats), text)

\* C19: the match count of a category is the number of its distinct terms
\* that match the text: the score is the sum over the categories of
\* sqrt(number of distinct matching terms) x weight, so a term listed
\* twice in the terms of a category counts once.
C19_CountIsOfDistinctTerms ==
    (scoring.done /\ scoring.op = "score_text") =>
        scoring.out.score
            = (SumOfDistinctRoots(scoring.categories, scoring.text) + 50000)
                  \div 100000

\* The terms of the category, by position, that match the text
MatchedTerms(cat, text) ==
    {k \in 1..Len(cat.terms) : Search(cat.terms[k], text)}

\* The second text matches one more term of category c than the first
\* one, and the same terms otherwise
OneMoreTerm(cats, c, first, second) ==
    /\ MatchedTerms(cats[c], first) \subseteq MatchedTerms(cats[c], second)
    /\ Cardinality(MatchedTerms(cats[c], second))
           = Cardinality(MatchedTerms(cats[c], first)) + 1
    /\ \A k \in 1..Len(cats) :
          k # c => MatchedTerms(cats[k], second) = MatchedTerms(cats[k], first)

\* The contribution of the category to the total, 0 without a match
Contribution(cat, text) ==
    LET matches == cat_matches(cat, text, Len(cat.terms))
    IN  IF matches > 0 THEN cat_score(matches, cat.weight) ELSE 0

\* C21: with the same categories, all of positive weight, a text that
\* matches one more term of a category than another text, and the same
\* terms otherwise, gets from that category a contribution that is not
\* smaller, and a total score that is not smaller.
C21_OneMoreTermNeverScoresLess ==
    (scoring.done /\ scoring.op = "score_text_again") =>
        LET cats == scoring.categories
        IN  \A a, b \in 1..2 : \A c \in 1..Len(cats) :
               ( /\ \A k \in 1..Len(cats) : cats[k].weight > 0
                 /\ OneMoreTerm(cats, c, scoring.text[a], scoring.text[b]) )
               => /\ Contribution(cats[c], scoring.text[b])
                        >= Contribution(cats[c], scoring.text[a])
                  /\ scoring.out[b].score >= scoring.out[a].score

\* "ml" and then "go ml" were scored against three categories: the second
\* text matches one more term of the last category, 2.5 became 3.62.
C21_Witness ==
    /\ scoring.done /\ scoring.op = "score_text_again"
    /\ Len(scoring.categories) = 3
    /\ OneMoreTerm(scoring.categories, 3, scoring.text[1], scoring.text[2])
    /\ Cardinality(MatchedTerms(scoring.categories[3], scoring.text[2])) = 2
    /\ scoring.out[1].score = 250
    /\ scoring.out[2].score = 312

\* C6: filter_items returns exactly the input items whose computed score
\* is at least min_score, each once and with relevance_score and
\* matched_categories set to the computed values and nothing else
\* changed, by relevance_score descending, equal scores in input order.
C6_KeepsAtLeastMinScoreSortedStable ==
    [][FilterItems =>
        LET in == scoring.items
            out == scoring'.out
            computed(k) == score_text(ItemText(in[k].item), scoring.categories)
            kept == {k \in 1..Len(in) : computed(k).score >= scoring.min_score}
        IN  /\ {out[i].obj : i \in 1..Len(out)} = kept
            /\ Len(out) = Cardinality(kept)
            /\ \A i \in 1..Len(out) :
                  /\ out[i].item =
                        [in[out[i].obj].item EXCEPT
                            !.relevance_score = computed(out[i].obj).score,
                            !.matched_categories = computed(out[i].obj).matched]
                  /\ scoring'.items[out[i].obj] = out[i]
            /\ \A i, j \in 1..Len(out) :
                  i < j =>
                      \/ out[i].item.relevance_score
                             > out[j].item.relevance_score
                      \/ /\ out[i].item.relevance_score
                                = out[j].item.relevance_score
                         /\ out[i].obj < out[j].obj
    ]_vars

\* A call returned an item scoring exactly min_score, two items of equal
\* score in their input order, and an item ahead of one that preceded it
\* in the input.
C6_Witness ==
    /\ scoring.done /\ scoring.op = "filter_items"
    /\ \E i \in 1..Len(scoring.out) :
          scoring.out[i].item.relevance_score = scoring.min_score
    /\ \E i, j \in 1..Len(scoring.out) :
          /\ i < j
          /\ scoring.out[i].item.relevance_score
                 = scoring.out[j].item.relevance_score
          /\ scoring.out[i].obj < scoring.out[j].obj
    /\ \E i, j \in 1..Len(scoring.out) :
          i < j /\ scoring.out[i].obj > scoring.out[j].obj

\* The title followed by the field, after a space, when it is not empty
WithField(text, val) == IF val = <<>> THEN text ELSE text \o <<" ">> \o val

\* The title with every non-empty field
TitleAndAllFields(item) ==
    WithField(WithField(WithField(item.title, item.abstract),
                        item.description), item.release_body)

\* The title with the first non-empty field
TitleAndFirstField(item) ==
    IF item.abstract # <<>> THEN WithField(item.title, item.abstract)
    ELSE IF item.description # <<>> THEN WithField(item.title, item.description)
    ELSE WithField(item.title, item.release_body)

\* C20 as claimed: the score and the matched categories of every item
\* filter_items returns are those of its title and the first non-empty of
\* its abstract, description and release body.
C20_TextIsTitleAndFirstField ==
    (scoring.done /\ scoring.op = "filter_items") =>
        \A k \in 1..Len(scoring.out) :
            LET item == scoring.out[k].item
                claimed == score_text(TitleAndFirstField(item), scoring.categories)
            IN  /\ item.relevance_score = claimed.score
                /\ item.matched_categories = claimed.matched

\* C20: the text filter_items scores is the title joined by spaces with
\* every non-empty one of the abstract, the description and the release
\* body, in that order: the items returned are those whose score for that
\* text is at least min_score, with that score and those categories, so
\* terms that occur only in the release body of an item with a
\* description do count.
C20_TextIsTitleAndEveryField ==
    (scoring.done /\ scoring.op = "filter_items") =>
        /\ \A k \in 1..Len(scoring.out) :
              LET item == scoring.out[k].item
                  all == score_text(TitleAndAllFields(item), scoring.categories)
              IN  /\ item.relevance_score = all.score
                  /\ item.matched_categories = all.matched
        /\ \A k \in 1..Len(scoring.items) :
              LET item == scoring.items[k].item
                  all == score_text(TitleAndAllFields(item), scoring.categories)
              IN  (all.score >= scoring.min_score)
                      <=> \E j \in 1..Len(scoring.out) :
                             scoring.out[j].obj = scoring.items[k].obj

\* filter_items returned an item with a description and a release body
\* whose score, 3.0 for four terms of the category of weight 1.5, counts
\* a term found in the release body only; its title and description
\* alone score 2.6.
C20_Witness ==
    /\ scoring.done /\ scoring.op = "filter_items"
    /\ \E k \in 1..Len(scoring.out) :
          LET item == scoring.out[k].item
          IN  /\ item.description # <<>> /\ item.release_body # <<>>
              /\ item.relevance_score = 300
              /\ score_text(TitleAndFirstField(item), scoring.categories).score = 260

----------------------------------------------------------------------------
(* Keyword configuration: load_keywords *)

\* The values yaml.safe_load can give for a category entry and its keys
NoneValue == [type |-> "NoneType"]

FloatValue(hundredths) == [type |-> "float", val |-> hundredths]

ListValue(elements) == [type |-> "list", val |-> elements]

\* A mapping; keys is the record of its keys, <<>> for none
DictValue(keys) == [type |-> "dict", val |-> keys]

MaxCategories == 2

\* The names of the entries of keywords.yaml, in file order
CategoryNames == <<"core", "llm", "agents">>

\* Category entries: weight and terms given; no weight; no terms; an empty
\* mapping; nothing after the name (a null entry); a terms key with
\* nothing after it.
CategoryConfigs ==
    { DictValue([weight |-> FloatValue(200),
                 terms |-> ListValue(<< <<"a", "i">> >>)]),
      DictValue([terms |-> ListValue(<< <<"m", "l">> >>)]),
      DictValue([weight |-> FloatValue(150)]),
      DictValue(<<>>),
      NoneValue,
      DictValue([weight |-> FloatValue(150), terms |-> NoneValue]) }

\* cat_config.get(key, default)
Get(cat_config, key, default) ==
    IF key \in DOMAIN cat_config.val THEN cat_config.val[key] ELSE default

\* Line 44
WeightOf(cat_config) == Get(cat_config, "weight", FloatValue(100))

\* Line 45
TermsOf(cat_config) == Get(cat_config, "terms", ListValue(<<>>))

\* Lines 43-46 over the first k entries: the categories so far, or the
\* exception raised: .get on an entry that is no mapping (AttributeError),
\* or the loop of __post_init__ over terms that are no list (TypeError)
RECURSIVE LoadLoop(_, _)
LoadLoop(entries, k) ==
    IF k = 0 THEN [raised |-> "", categories |-> <<>>]
    ELSE LET acc == LoadLoop(entries, k - 1)
             cat_config == entries[k].cat_config
         IN  IF acc.raised # "" THEN acc
             ELSE IF cat_config.type # "dict"
             THEN [raised |-> "AttributeError", categories |-> <<>>]
             ELSE IF TermsOf(cat_config).type # "list"
             THEN [raised |-> "TypeError", categories |-> <<>>]
             ELSE [acc EXCEPT !.categories = Append(@,
                      KeywordCategory(entries[k].name,
                                      WeightOf(cat_config).val,
                                      TermsOf(cat_config).val))]

\* load_keywords on the mapping the file holds, as the list of its entries
load_keywords(entries) == LoadLoop(entries, Len(entries))

InitKeywords ==
    /\ file = [kind |-> "missing", content |-> EmptyData]
    /\ loaded = EmptyData /\ data = EmptyData /\ now = Epoch /\ pc = "start"
    /\ ret = [op |-> "none", arg |-> <<>>, val |-> <<>>,
              repeat |-> [is |-> FALSE, val |-> <<>>]]
    /\ agg = Idle /\ ranking = Idle /\ scoring = Idle
    /\ \E configs \in SeqsUpTo(CategoryConfigs, MaxCategories) :
          fn = [done |-> FALSE, op |-> "none",
                arg |-> [k \in 1..Len(configs) |->
                            [name |-> CategoryNames[k],
                             cat_config |-> configs[k]]],
                out |-> <<>>, text |-> <<>>, scored |-> <<>>]

\* main.py line 62: the categories are loaded
LoadKeywords ==
    /\ ~fn.done /\ fn.op = "none"
    /\ fn' = [fn EXCEPT !.op = "load_keywords",
                        !.out = load_keywords(fn.arg),
                        !.done = (load_keywords(fn.arg).raised # "")]
    /\ UNCHANGED <<file, loaded, data, now, pc, ret, agg, ranking, scoring>>

\* main.py lines 130-132: a text is scored against the loaded categories
ScoreWithLoaded(text) ==
    /\ ~fn.done /\ fn.op = "load_keywords"
    /\ fn' = [fn EXCEPT !.op = "score_text", !.done = TRUE,
                        !.text = text,
                        !.scored = score_text(text, fn.out.categories)]
    /\ UNCHANGED <<file, loaded, data, now, pc, ret, agg, ranking, scoring>>

NextKeywords ==
    \/ LoadKeywords
    \/ \E v \in ScoreValues : ScoreWithLoaded(ItemText(v))

SpecKeywords == InitKeywords /\ [][NextKeywords]_vars

\* The entry gives no weight, resp. no terms
MissingWeight(cat_config) ==
    cat_config.type # "dict" \/ "weight" \notin DOMAIN cat_config.val

MissingTerms(cat_config) ==
    \/ cat_config.type # "dict"
    \/ "terms" \notin DOMAIN cat_config.val
    \/ cat_config.val.terms.type # "list"

\* C22: load_keywords never fails on a category entry with missing weight
\* or missing terms: it returns one category per entry, in configuration
\* order, with the weight 1.0 where the entry gives none and the empty
\* list of terms where the entry gives none, so that such a category
\* never matches, and with the given weight and terms otherwise.
C22_MissingWeightOrTermsDefaulted ==
    /\ fn.op \in {"load_keywords", "score_text"} =>
          /\ fn.out.raised = ""
          /\ Len(fn.out.categories) = Len(fn.arg)
          /\ \A k \in 1..Len(fn.arg) :
                LET cat == fn.out.categories[k]
                    cat_config == fn.arg[k].cat_config
                IN  /\ cat.name = fn.arg[k].name
                    /\ cat.weight = IF MissingWeight(cat_config) THEN 100
                                    ELSE cat_config.val.weight.val
                    /\ cat.terms = IF MissingTerms(cat_config) THEN <<>>
                                   ELSE cat_config.val.terms.val
    /\ fn.op = "score_text" =>
          \A k \in 1..Len(fn.arg) :
             MissingTerms(fn.arg[k].cat_config)
                 => \A j \in 1..Len(fn.scored.matched) :
                       fn.scored.matched[j] # fn.arg[k].name

\* The part of C22 that the code keeps: when every entry is a mapping
\* whose terms, if given, are a list, nothing is raised and the defaults
\* are applied in configuration order.
C22_MappingEntriesDefaulted ==
    ( /\ fn.op \in {"load_keywords", "score_text"}
      /\ \A k \in 1..Len(fn.arg) :
            /\ fn.arg[k].cat_config.type = "dict"
            /\ TermsOf(fn.arg[k].cat_config).type = "list" )
    => /\ fn.out.raised = ""
       /\ fn.out.categories
             = [k \in 1..Len(fn.arg) |->
                   KeywordCategory(fn.arg[k].name,
                       IF MissingWeight(fn.arg[k].cat_config) THEN 100
                       ELSE fn.arg[k].cat_config.val.weight.val,
                       IF MissingTerms(fn.arg[k].cat_config) THEN <<>>
                       ELSE fn.arg[k].cat_config.val.terms.val)]

----------------------------------------------------------------------------
(* Run log: append_run_record *)

MAX_RECORDS == 200

MaxAppends == 202

\* The record of lines 55-64; date is the time of the call
RunRecord(date, run_type, collected, after_dedup, after_filter, issue_url, email_results, errors) ==
    [date |-> date, type |-> run_type, collected |-> collected,
     after_dedup |-> after_dedup, after_filter |-> after_filter,
     issue_url |-> issue_url, email |-> email_results, errors |-> errors]

\* The call keeping the first MAX_RECORDS records, records[:MAX_RECORDS]
append_run_record_keep_first(log_file, record) ==
    LET records == IF log_file.kind = "list" THEN log_file.records ELSE <<>>
        appended == Append(records, record)
    IN  [kind |-> "list",
         records |-> IF Len(appended) > MAX_RECORDS
                     THEN SubSeq(appended, 1, MAX_RECORDS)
                     ELSE appended]

\* append_run_record: the file after the call.  A file that is missing,
\* is not JSON or does not hold a list counts as holding no records.
append_run_record(log_file, record) ==
    LET records == IF log_file.kind = "list" THEN log_file.records ELSE <<>>
        appended == Append(records, record)
    IN  [kind |-> "list",
         records |-> IF Len(appended) > MAX_RECORDS
                     THEN SubSeq(appended, Len(appended) - MAX_RECORDS + 1,
                                 Len(appended))
                     ELSE appended]

NoStats == [arxiv |-> 0, github |-> 0, pwc |-> 0]

\* The record of the call number n, a daily run without items
NthRecord(n) ==
    RunRecord(n, "daily", NoStats, NoStats, NoStats, "",
              [en |-> FALSE, cn |-> FALSE], <<>>)

\* The run log before the first call: no file, a file that is not JSON, a
\* file holding a JSON object
LogFiles ==
    { [kind |-> "missing", records |-> <<>>],
      [kind |-> "invalid", records |-> <<>>],
      [kind |-> "object", records |-> <<>>] }

InitLog ==
    /\ file = [kind |-> "missing", content |-> EmptyData]
    /\ loaded = EmptyData /\ data = EmptyData /\ now = Epoch /\ pc = "start"
    /\ ret = [op |-> "none", arg |-> <<>>, val |-> <<>>,
              repeat |-> [is |-> FALSE, val |-> <<>>]]
    /\ agg = Idle /\ ranking = Idle /\ scoring = Idle
    /\ \E log_file \in LogFiles :
          fn = [done |-> FALSE, op |-> "none", log |-> log_file, calls |-> 0]

AppendRunRecord ==
    /\ ~fn.done
    /\ fn' = [fn EXCEPT
                !.op = "append_run_record",
                !.calls = fn.calls + 1,
                !.log = append_run_record(fn.log, NthRecord(fn.calls + 1)),
                !.done = (fn.calls + 1 = MaxAppends)]
    /\ UNCHANGED <<file, loaded, data, now, pc, ret, agg, ranking, scoring>>

NextLog == AppendRunRecord

SpecLog == InitLog /\ [][NextLog]_vars

\* C27: after any sequence of append_run_record calls the file holds at
\* most MAX_RECORDS = 200 records: the records of the most recent calls,
\* in the order of the calls, the newest last.
C27_LogHoldsTheNewestRecords ==
    fn.op = "append_run_record" =>
        LET records == fn.log.records
            held == Min(fn.calls, MAX_RECORDS)
        IN  /\ fn.log.kind = "list"
            /\ Len(records) = held
            /\ Len(records) <= 200
            /\ \A k \in 1..held : records[k] = NthRecord(fn.calls - held + k)
            /\ records[held] = NthRecord(fn.calls)

\* After 202 calls the file holds the records of the calls 3 to 202.
C27_Witness ==
    /\ fn.op = "append_run_record"
    /\ fn.calls = 202
    /\ Len(fn.log.records) = 200
    /\ fn.log.records[1].date = 3
    /\ fn.log.records[200].date = 202

----------------------------------------------------------------------------
(* The daily run: main *)

\* Runs are sequential and short: the clock stands still within a run and
\* has advanced when the next run starts.

MaxRuns == 2

\* keywords.yaml
Keywords == <<KeywordCategory("llm", 200, << <<"a", "i">> >>)>>

\* settings.yaml and the environment: the defaults without email, and a
\* cap of one item per source with email enabled and recipients set
SettingsValues ==
    { [filter |-> [min_score |-> 100, max_items_per_source |-> 15],
       email |-> [enabled |-> FALSE, daily_enabled |-> TRUE],
       recipients |-> [en |-> TRUE, cn |-> TRUE]],
      [filter |-> [min_score |-> 100, max_items_per_source |-> 1],
       email |-> [enabled |-> TRUE, daily_enabled |-> TRUE],
       recipients |-> [en |-> TRUE, cn |-> TRUE]] }

\* A collected item: obj names the object by its position in the list
Collected(unique_id, title, abstract) ==
    [obj |-> 0, unique_id |-> unique_id,
     item |-> Item(title, abstract, <<>>, <<>>)]

Objects(items) == [k \in 1..Len(items) |-> [items[k] EXCEPT !.obj = k]]

\* What the sources hold: "AI" (scores 2.0), "mail" (scores 0) and
\* "ai" with the abstract "ml" (scores 2.0) on arXiv, "AI" on GitHub,
\* "mail" on Papers with Code
ArxivResults ==
    Objects(<<Collected(<<"arxiv", "1">>, <<"A", "I">>, <<>>),
              Collected(<<"arxiv", "2">>, <<"m", "a", "i", "l">>, <<>>),
              Collected(<<"arxiv", "3">>, <<"a", "i">>, <<"m", "l">>)>>)

GitHubResults ==
    Objects(<<Collected(<<"github", "release", "r">>, <<"A", "I">>, <<>>)>>)

PwcResults ==
    Objects(<<Collected(<<"pwc", "1">>, <<"m", "a", "i", "l">>, <<>>)>>)

\* The outcomes of a collector: it returns its items; it catches an error
\* of its own, logs it and returns what it has, here nothing; it raises
Returns(items) == [kind |-> "returns", failed |-> FALSE, items |-> items]

Failed == [kind |-> "returns", failed |-> TRUE, items |-> <<>>]

Raises == [kind |-> "raises", failed |-> TRUE, items |-> <<>>]

\* Every collaborator succeeds
AllFine ==
    [arxiv |-> Returns(ArxivResults), github |-> Returns(GitHubResults),
     pwc |-> Returns(PwcResults), summarizer |-> "ok", issue |-> "url",
     smtp |-> [en |-> TRUE, cn |-> TRUE]]

\* What the collaborators do in a run.  The summarizer returns ("ok"),
\* raises, or fails inside and returns ("fails"); create_issue returns the
\* URL or None; smtp is what SmtpClient.send returns per language.
Outcomes ==
    { AllFine,
      [AllFine EXCEPT !.issue = "None"],
      [AllFine EXCEPT !.arxiv = Raises],
      [AllFine EXCEPT !.arxiv = Failed],
      [AllFine EXCEPT !.github = Raises],
      [AllFine EXCEPT !.pwc = Failed],
      [AllFine EXCEPT !.summarizer = "raises"],
      [AllFine EXCEPT !.summarizer = "fails"],
      [AllFine EXCEPT !.smtp = [en |-> TRUE, cn |-> FALSE]],
      [arxiv |-> Raises, github |-> Raises, pwc |-> Raises,
       summarizer |-> "raises", issue |-> "None",
       smtp |-> [en |-> FALSE, cn |-> FALSE]] }

NoItems == [arxiv |-> <<>>, github |-> <<>>, pwc |-> <<>>]

Stats(lists) ==
    [arxiv |-> Len(lists.arxiv), github |-> Len(lists.github),
     pwc |-> Len(lists.pwc)]

\* Lines 118-120 marking only the items that reach min_score
dedup_marking_scored(d, collected, t) ==
    LET Scores(x) == score_text(ItemText(x.item), Keywords).score >= 100
        arxiv  == filter_unseen(d, collected.arxiv, t)
        github == filter_unseen(d, collected.github, t)
        pwc    == filter_unseen(d, collected.pwc, t)
        marked == filter_unseen(d, SelectSeq(collected.arxiv \o collected.github \o collected.pwc, Scores), t)
    IN  [data |-> marked.data,
         unseen |-> [arxiv |-> arxiv.unseen, github |-> github.unseen,
                     pwc |-> pwc.unseen]]

\* Lines 118-120: filter_unseen on each list in turn
dedup(d, collected, t) ==
    LET arxiv  == filter_unseen(d, collected.arxiv, t)
        github == filter_unseen(arxiv.data, collected.github, t)
        pwc    == filter_unseen(github.data, collected.pwc, t)
    IN  [data |-> pwc.data,
         unseen |-> [arxiv |-> arxiv.unseen, github |-> github.unseen,
                     pwc |-> pwc.unseen]]

\* Lines 130-132: filter_items(...)[:max_items]
Filtered(items, min_score, max_items) ==
    SliceTo(filter_items(Objects(items), Keywords, min_score).out, max_items)

\* format_daily_issue as main uses it: the title, and the body as what it
\* is rendered from
IssueTitle(filtered) ==
    [total |-> Len(filtered.arxiv) + Len(filtered.github) + Len(filtered.pwc)]

IssueBody(filtered, summaries, lang) ==
    [lang |-> lang, summaries |-> summaries, items |-> filtered]

\* Translator.translate_to_chinese
Translated(content_md) == [translated |-> content_md]

\* The parameters of BilingualSender.send, lines 80-85
send_parameters == {"content_md", "subject", "subject_prefix"}

\* The call sender.send(**kwargs): a keyword that is no parameter raises
\* TypeError before the body runs; otherwise the English content goes to
\* the English recipients and its translation to the Chinese ones.
send(kwargs, recipients, smtp) ==
    IF ~(DOMAIN kwargs \subseteq send_parameters)
    THEN [raised |-> "TypeError", results |-> [en |-> FALSE, cn |-> FALSE],
          sent |-> <<>>]
    ELSE [raised |-> "",
          results |-> [en |-> recipients.en /\ smtp.en,
                       cn |-> recipients.cn /\ smtp.cn],
          sent |-> (IF recipients.en
                    THEN <<[to |-> "en", body |-> kwargs.content_md]>>
                    ELSE <<>>)
                   \o (IF recipients.cn
                       THEN <<[to |-> "cn",
                               body |-> Translated(kwargs.content_md)]>>
                       ELSE <<>>)]

\* The state file before the first run: none, or the file an earlier run
\* saved, with one paper recorded a retention period before the clock
\* starts
StoreFiles ==
    {[kind |-> "missing", content |-> EmptyData],
     [kind |-> "valid",
      content |-> mark_seen(EmptyData, <<"arxiv", "1">>, Epoch - Retention)]}

InitMain ==
    /\ file \in StoreFiles
    /\ loaded = EmptyData /\ data = EmptyData /\ now = Epoch /\ pc = "start"
    /\ ret = [op |-> "none", arg |-> <<>>, val |-> <<>>,
              repeat |-> [is |-> FALSE, val |-> <<>>]]
    /\ agg = Idle /\ ranking = Idle /\ scoring = Idle
    /\ \E settings \in SettingsValues :
          fn = [done |-> FALSE, op |-> "idle", settings |-> settings,
                runs |-> 0, last_run |-> 0, outcome |-> AllFine,
                collected |-> NoItems, unseen |-> NoItems,
                filtered |-> NoItems, summaries |-> FALSE,
                issue_title |-> IssueTitle(NoItems),
                issue_body |-> IssueBody(NoItems, FALSE, "en"),
                issue_body_cn |-> IssueBody(NoItems, FALSE, "cn"),
                issue_url |-> "None",
                email_results |-> [en |-> FALSE, cn |-> FALSE],
                run_errors |-> <<>>, sent |-> <<>>,
                log |-> [kind |-> "missing", records |-> <<>>],
                history |-> {}]

\* Lines 48-72: the configuration is loaded and the store constructed
StartRun(outcome) ==
    /\ fn.op = "idle"
    /\ fn.runs < MaxRuns
    /\ fn.runs = 0 \/ now > fn.last_run
    /\ data' = IF file.kind = "valid" THEN file.content ELSE EmptyData
    /\ loaded' = data'
    /\ pc' = "ready"
    /\ fn' = [fn EXCEPT
                !.op = "collect", !.done = FALSE, !.outcome = outcome,
                !.last_run = now,
                !.collected = NoItems, !.unseen = NoItems,
                !.filtered = NoItems, !.summaries = FALSE,
                !.issue_title = IssueTitle(NoItems),
                !.issue_body = IssueBody(NoItems, FALSE, "en"),
                !.issue_body_cn = IssueBody(NoItems, FALSE, "cn"),
                !.issue_url = "None",
                !.email_results = [en |-> FALSE, cn |-> FALSE],
                !.run_errors = <<>>, !.sent = <<>>]
    /\ UNCHANGED <<file, now, ret, agg, ranking, scoring>>

\* Lines 74-114: each collector in its own try
Collect ==
    /\ fn.op = "collect"
    /\ LET o == fn.outcome
           Err(c, text) == IF c.kind = "raises" THEN <<text>> ELSE <<>>
       IN  fn' = [fn EXCEPT
                    !.op = "dedup",
                    !.collected = [arxiv |-> o.arxiv.items,
                                   github |-> o.github.items,
                                   pwc |-> o.pwc.items],
                    !.run_errors =
                        Err(o.arxiv, "arXiv collection failed: e")
                        \o Err(o.github, "GitHub collection failed: e")
                        \o Err(o.pwc, "Papers with Code collection failed: e")]
    /\ UNCHANGED <<file, loaded, data, now, pc, ret, agg, ranking, scoring>>

\* Lines 116-126
Dedup ==
    /\ fn.op = "dedup"
    /\ LET r == dedup(data, fn.collected, now)
       IN  /\ data' = r.data
           /\ fn' = [fn EXCEPT !.op = "filter", !.unseen = r.unseen]
    /\ UNCHANGED <<file, loaded, now, pc, ret, agg, ranking, scoring>>

\* Lines 128-145
Filter ==
    /\ fn.op = "filter"
    /\ LET min_score == fn.settings.filter.min_score
           max_items == fn.settings.filter.max_items_per_source
       IN  fn' = [fn EXCEPT
                    !.op = "summarize",
                    !.filtered =
                        [arxiv |-> Filtered(fn.unseen.arxiv, min_score, max_items),
                         github |-> Filtered(fn.unseen.github, min_score, max_items),
                         pwc |-> Filtered(fn.unseen.pwc, min_score, max_items)]]
    /\ UNCHANGED <<file, loaded, data, now, pc, ret, agg, ranking, scoring>>

\* Lines 147-155
Summarize ==
    /\ fn.op = "summarize"
    /\ fn' = [fn EXCEPT
                !.op = "format",
                !.summaries = (fn.outcome.summarizer = "ok"),
                !.run_errors =
                    IF fn.outcome.summarizer = "raises"
                    THEN Append(@, "Summarization failed: e") ELSE @]
    /\ UNCHANGED <<file, loaded, data, now, pc, ret, agg, ranking, scoring>>

\* Lines 157-165
Format ==
    /\ fn.op = "format"
    /\ fn' = [fn EXCEPT
                !.op = "issue",
                !.issue_title = IssueTitle(fn.filtered),
                !.issue_body = IssueBody(fn.filtered, fn.summaries, "en"),
                !.issue_body_cn = IssueBody(fn.filtered, fn.summaries, "cn")]
    /\ UNCHANGED <<file, loaded, data, now, pc, ret, agg, ranking, scoring>>

\* Lines 167-176: create_issue returns None for every failure
CreateIssue ==
    /\ fn.op = "issue"
    /\ fn' = [fn EXCEPT
                !.op = "email",
                !.issue_url = fn.outcome.issue,
                !.run_errors =
                    IF fn.outcome.issue = "None"
                    THEN Append(@, "Failed to create GitHub Issue") ELSE @]
    /\ UNCHANGED <<file, loaded, data, now, pc, ret, agg, ranking, scoring>>

\* Lines 178-195
SendEmail ==
    /\ fn.op = "email"
    /\ LET kwargs == [content_md |-> fn.issue_body,
                      subject |-> fn.issue_title,
                      subject_prefix |-> "[LLM Update]",
                      content_cn |-> fn.issue_body_cn]
           r == send(kwargs, fn.settings.recipients, fn.outcome.smtp)
       IN  IF fn.settings.email.enabled /\ fn.settings.email.daily_enabled
           THEN IF r.raised = ""
                THEN fn' = [fn EXCEPT !.op = "save",
                                      !.email_results = r.results,
                                      !.sent = r.sent]
                ELSE fn' = [fn EXCEPT
                              !.op = "save",
                              !.run_errors =
                                  Append(@, "Email sending failed: e")]
           ELSE fn' = [fn EXCEPT !.op = "save"]
    /\ UNCHANGED <<file, loaded, data, now, pc, ret, agg, ranking, scoring>>

\* Lines 197-199
SaveDedup ==
    /\ fn.op = "save"
    /\ data' = prune(data, now)
    /\ file' = [kind |-> "valid", content |-> data']
    /\ fn' = [fn EXCEPT !.op = "log"]
    /\ UNCHANGED <<loaded, now, pc, ret, agg, ranking, scoring>>

\* The IDs of the items of a list
IdsOf(items) == {items[k].unique_id : k \in 1..Len(items)}

AllOf(lists) == lists.arxiv \o lists.github \o lists.pwc

\* Lines 201-217; history keeps which IDs the completed runs collected,
\* when, and whether filter_unseen returned them (fresh) in that run
AppendRunLog ==
    /\ fn.op = "log"
    /\ LET record == RunRecord(IsoFormat(now), "daily", Stats(fn.collected),
                               Stats(fn.unseen), Stats(fn.filtered),
                               IF fn.issue_url = "None" THEN "" ELSE fn.issue_url,
                               fn.email_results, fn.run_errors)
           all == AllOf(fn.collected)
           new == AllOf(fn.unseen)
       IN  fn' = [fn EXCEPT
                    !.op = "idle", !.done = TRUE, !.runs = fn.runs + 1,
                    !.log = append_run_record(fn.log, record),
                    !.history =
                        @ \cup {[id |-> all[k].unique_id, at |-> now,
                                 fresh |-> all[k].unique_id \in IdsOf(new)] :
                                   k \in 1..Len(all)}]
    /\ UNCHANGED <<file, loaded, data, now, pc, ret, agg, ranking, scoring>>

\* Time passes between two runs
Wait ==
    /\ fn.op = "idle"
    /\ now < Epoch + MaxElapsed
    /\ now' = now + 1
    /\ UNCHANGED <<file, loaded, data, pc, ret, agg, ranking, scoring, fn>>

NextMain ==
    \/ \E outcome \in Outcomes : StartRun(outcome)
    \/ Collect
    \/ Dedup
    \/ Filter
    \/ Summarize
    \/ Format
    \/ CreateIssue
    \/ SendEmail
    \/ SaveDedup
    \/ AppendRunLog
    \/ Wait

SpecMain == InitMain /\ [][NextMain]_vars

----------------------------------------------------------------------------
(* Properties of the daily run *)

\* The run has appended its record; the record is the last of the log
RunCompleted == fn.op = "idle" /\ fn.runs > 0

LastRecord == fn.log.records[Len(fn.log.records)]

\* The failures of the collaborators in a run with the given outcome, each
\* as the words its entry in the error list starts with
Failures(settings, outcome) ==
    {"arXiv collection failed" : x \in {c \in {outcome.arxiv} : c.failed}}
    \cup {"GitHub collection failed" :
             x \in {c \in {outcome.github} : c.failed}}
    \cup {"Papers with Code collection failed" :
             x \in {c \in {outcome.pwc} : c.failed}}
    \cup {"Summarization failed" :
             x \in {s \in {outcome.summarizer} : s # "ok"}}
    \cup {"Failed to create GitHub Issue" :
             x \in {u \in {outcome.issue} : u = "None"}}
    \cup {"Email sending failed" :
             x \in {r \in {outcome.smtp} :
                       /\ settings.email.enabled
                       /\ settings.email.daily_enabled
                       /\ ~(r.en /\ r.cn)}}

Recorded(failure, errors) ==
    \E k \in 1..Len(errors) :
        /\ Len(errors[k]) >= Len(failure)
        /\ LitAt(errors[k], 1, failure, FALSE)

\* C24: whatever the collectors, the summarizer, issue creation and email
\* sending do (raise or fail), the run persists the dedup store, then
\* appends a run record, and each of these failures is in the error list
\* of that record.
C24_EveryFailureAbsorbedAndRecorded ==
    /\ fn.op = "log" => file = [kind |-> "valid", content |-> data]
    /\ RunCompleted =>
          /\ file = [kind |-> "valid", content |-> data]
          /\ fn.log.kind = "list"
          /\ LastRecord.date = IsoFormat(fn.last_run)
          /\ \A failure \in Failures(fn.settings, fn.outcome) :
                Recorded(failure, LastRecord.errors)

\* The part of C24 that the code keeps: the store is persisted before
\* the record is appended, and every exception raised to main and every
\* None from create_issue is in the error list.
C24_RaisedFailuresRecorded ==
    /\ fn.op = "log" => file = [kind |-> "valid", content |-> data]
    /\ RunCompleted =>
          LET o == fn.outcome
              errors == LastRecord.errors
          IN  /\ o.arxiv.kind = "raises"
                    => Recorded("arXiv collection failed", errors)
              /\ o.github.kind = "raises"
                    => Recorded("GitHub collection failed", errors)
              /\ o.pwc.kind = "raises"
                    => Recorded("Papers with Code collection failed", errors)
              /\ o.summarizer = "raises"
                    => Recorded("Summarization failed", errors)
              /\ o.issue = "None"
                    => Recorded("Failed to create GitHub Issue", errors)

\* C26: in a run with email enabled and recipients configured, send is
\* executed with the English issue body and the Chinese one, the email
\* results of the run record are the per-language results of send, and
\* no email error is in the error list of the run.
C26_EmailSentInBothLanguages ==
    ( /\ fn.op \in {"save", "log"} \/ RunCompleted
      /\ fn.settings.email.enabled /\ fn.settings.email.daily_enabled
      /\ fn.settings.recipients.en /\ fn.settings.recipients.cn )
    => /\ Len(fn.sent) = 2
       /\ \E k \in 1..Len(fn.sent) :
             fn.sent[k].to = "en" /\ fn.sent[k].body = fn.issue_body
       /\ \E k \in 1..Len(fn.sent) :
             fn.sent[k].to = "cn" /\ fn.sent[k].body = fn.issue_body_cn
       /\ fn.email_results = fn.outcome.smtp
       /\ ~Recorded("Email sending failed", fn.run_errors)
       /\ RunCompleted => LastRecord.email = fn.outcome.smtp

\* C28 as stated: the store persisted at the end of a completed run holds
\* the ID of every item collected in the run, whatever its score, the cap
\* per source and the outcome of issue creation; and filter_unseen of a
\* later run within the retention window returns none of these items.
C28_CollectedIdsSuppressed ==
    /\ RunCompleted =>
          /\ file.kind = "valid"
          /\ \A u \in IdsOf(AllOf(fn.collected)) : is_seen(file.content, u)
    /\ fn.op = "filter" =>
          \A h \in fn.history :
              now - h.at <= Retention => h.id \notin IdsOf(AllOf(fn.unseen))

\* C28, amended: the store persisted at the end of a completed run holds
\* the ID of every item filter_unseen returned in the run (every collected
\* item that was not recorded yet), whatever its score, the cap per source
\* and the outcome of issue creation; and filter_unseen of a later run
\* within the retention window of that run returns none of these items.
C28_UnseenIdsSuppressed ==
    /\ RunCompleted =>
          /\ file.kind = "valid"
          /\ \A u \in IdsOf(AllOf(fn.unseen)) : is_seen(file.content, u)
    /\ fn.op = "filter" =>
          \A h \in fn.history :
              h.fresh /\ now - h.at <= Retention
                  => h.id \notin IdsOf(AllOf(fn.unseen))

\* A second run has collected again, at the end of their retention
\* window, three arXiv papers first recorded by a run whose issue could
\* not be created: one had been published, one had scored below min_score
\* and one had been cut by the cap of one item per source; filter_unseen
\* returned none of them.
C28_Witness ==
    /\ fn.op = "filter" /\ fn.runs = 1
    /\ fn.settings.filter.max_items_per_source = 1
    /\ LastRecord.issue_url = ""
    /\ LastRecord.after_dedup.arxiv = 3
    /\ LastRecord.after_filter.arxiv = 1
    /\ Len(fn.collected.arxiv) = 3
    /\ fn.unseen.arxiv = <<>>
    /\ \A k \in 1..3 :
          \E h \in fn.history :
              /\ h.id = fn.collected.arxiv[k].unique_id
              /\ h.fresh /\ now - h.at = Retention

----------------------------------------------------------------------------
(* The retention clock of a record (DedupStore, over the steps of          *)
(* SpecDedup)                                                              *)

\* The age of a record at the current time
AgeOf(entry) == now - TimeOf(entry.seen_at)

\* The record is among those of its bucket in the store d
Holds(d, b, entry) ==
    b \in DOMAIN d /\ \E j \in 1..Len(d[b]) : d[b][j] = entry

\* What every call does to a record of the store, given the set of ages
\* at which save() is to remove it: is_seen is true of its ID and
\* filter_unseen never returns an item of its ID, whatever its age; no
\* call but a save() at such an age removes it or changes its timestamp,
\* and such a save() removes it; and filter_unseen returns each list's
\* first item of an ID without record and records it at the current time.
RetentionClock(removed) ==
    /\ \A b \in DOMAIN data :
          \A i \in 1..Len(data[b]) :
              LET entry == data[b][i]
              IN  /\ is_seen(data, entry.id)
                  /\ \A items \in ItemLists :
                        FilterUnseen(items) =>
                            \A k \in 1..Len(ret'.val) :
                                ret'.val[k].unique_id # entry.id
                  /\ ~Construct =>
                        IF Save /\ AgeOf(entry) \in removed
                        THEN ~Holds(data', b, entry)
                        ELSE Holds(data', b, entry)
    /\ \A items \in ItemLists :
          FilterUnseen(items) =>
              \A k \in 1..Len(items) :
                  ~is_seen(data, items[k].unique_id) =>
                      /\ \E j \in 1..Len(ret'.val) :
                            ret'.val[j].unique_id = items[k].unique_id
                      /\ Holds(data', SourceOf(items[k].unique_id),
                               Entry(items[k].unique_id, now))

\* C29: the retention clock of an ID starts at its first marking and is
\* never refreshed, and is_seen ignores the age of a record: a recorded ID
\* stays suppressed until a save() more than retention_days after its
\* first marking prunes it, even when it is collected again in between,
\* and the first filter_unseen after that save() returns it again and
\* records it with the time of that call.
C29_SuppressedUntilSaveAfterRetention ==
    [][RetentionClock({age \in Times : age > Retention})]_vars

\* What the code does: the save() that prunes a record is one at least
\* retention_days after its first marking.
C29_SuppressedUntilSaveAtRetention ==
    [][RetentionClock({age \in Times : age >= Retention})]_vars

----------------------------------------------------------------------------
(* The lookahead of _parse_issue_body (over the documents of SpecParse)    *)

\* The lines of LineTexts that the quote pattern matches
QuoteLines == {"> about it"}

\* Of the k-th item of each parsed document: its score is 0 when none of
\* the given score lines holds a score token, it has no categories when
\* none of the given topics lines holds a Topics list, and its
\* description is empty when none of the given quote lines is a
\* blockquote line.  Each argument gives the positions to look at, for
\* the document's lines and the position of the item's start line.
FieldsComeFrom(score_lines, topics_lines, quote_lines) ==
    fn.op = "parse_issue_body" =>
        \A d \in 1..Len(fn.out) :
            LET lines == fn.arg[d]
                starts == ItemStarts(lines)
            IN  /\ Len(fn.out[d]) = Len(starts)
                /\ \A k \in 1..Len(starts) :
                      LET item == fn.out[d][k]
                      IN  /\ (\A i \in score_lines[d][k] :
                                 lines[i] \notin DOMAIN ScoreToken)
                                => item.relevance_score = 0
                          /\ (\A i \in topics_lines[d][k] :
                                 lines[i] \notin TopicsLines)
                                => item.matched_categories = <<>>
                          /\ (\A i \in quote_lines[d][k] :
                                 lines[i] \notin QuoteLines)
                                => item.description = ""

\* For each document and each of its items, the item's own lines
OwnLinesOfItems ==
    [d \in 1..Len(fn.arg) |->
        [k \in 1..Len(ItemStarts(fn.arg[d])) |-> OwnLines(fn.arg[d], k)]]

\* For each document and each of its items, the n lines from the one
\* `from` lines after the item's start line on
WindowOfItems(from, n) ==
    [d \in 1..Len(fn.arg) |->
        [k \in 1..Len(ItemStarts(fn.arg[d])) |->
            LET i == ItemStarts(fn.arg[d])[k]
            IN  (i + from)..Min(i + from + n - 1, Len(fn.arg[d]))]]

\* C25: the score, the topic list and the description of each item come
\* from the item's own lines only: an item with no score token (no Topics
\* list, no blockquote line) between its item-start line and the next
\* item-start line has relevance_score 0 (no categories, an empty
\* description), also when the next item starts within the lookahead
\* window.
C25_FieldsFromOwnLinesOnly ==
    FieldsComeFrom(OwnLinesOfItems, OwnLinesOfItems, OwnLinesOfItems)

\* What the code does: the score and the topic list come from the 5 lines
\* from the item-start line on, the description from the 7 lines after
\* it, whichever item these lines belong to.
C25_FieldsFromLookaheadWindow ==
    FieldsComeFrom(WindowOfItems(0, 5), WindowOfItems(0, 5), WindowOfItems(1, 7))

----------------------------------------------------------------------------
(* The frame of the merge in aggregate_weekly (over SpecAgg)               *)

\* The fields of a stored item that the merge of lines 149-158 does not
\* assign
KeptFields(item) ==
    [title |-> item.title, url |-> item.url, source |-> item.source,
     description |-> item.description, extra_info |-> item.extra_info]

\* all_items after the first n parsed occurrences
MergedAfter(occ, n) == MergeAll(<<>>, SubSeq(occ, 1, n))

\* C30: merging a later occurrence of a URL changes only the appearances,
\* the relevance_score and the matched_categories of the stored item: its
\* title, url, source, description and extra_info stay those of the first
\* occurrence processed, and the stored items of other URLs stay as they
\* are.
C30_MergeKeepsFirstOccurrenceFields ==
    agg.done =>
        LET occ == Occurrences(agg.issues)
        IN  /\ agg.out = MergedAfter(occ, Len(occ))
            /\ \A n \in 1..Len(occ) :
                  LET before == MergedAfter(occ, n - 1)
                      after  == MergedAfter(occ, n)
                  IN  /\ Len(after) >= Len(before)
                      /\ \A k \in 1..Len(before) :
                            IF before[k].url = occ[n].url
                            THEN KeptFields(after[k]) = KeptFields(before[k])
                            ELSE after[k] = before[k]
            /\ \A k \in 1..Len(agg.out) :
                  LET of_url == {i \in 1..Len(occ) : occ[i].url = agg.out[k].url}
                      first == CHOOSE i \in of_url : \A j \in of_url : i <= j
                  IN  KeptFields(agg.out[k]) = KeptFields(occ[first])

\* The URL u1 was parsed first as X under the GitHub header without
\* description, then as X2 under the arXiv header, after the item of
\* another URL, then as X under no header with a description: the
\* returned item of u1 has the title, the source and the empty
\* description of the first, and 3 appearances; the item of the other URL
\* is as it was parsed.
C30_Witness ==
    /\ agg.done
    /\ Len(agg.issues) = 3
    /\ LET occ == Occurrences(agg.issues)
       IN  /\ Len(occ) = 4 /\ Len(agg.out) = 2
           /\ occ[1].url = "u1" /\ occ[3].url = "u1" /\ occ[4].url = "u1"
           /\ occ[3].title # occ[1].title
           /\ occ[3].source # occ[1].source
           /\ occ[1].description = "" /\ occ[4].description # ""
           /\ agg.out[1].title = "X" /\ agg.out[1].source = "github"
           /\ agg.out[1].description = ""
           /\ agg.out[1].appearances = 3
           /\ agg.out[2] = occ[2]

====
